---------------------------- MODULE Spec2Model ----------------------------
(***************************************************************************)
(* Bidirectional bridge between the local Initiative Tracker session (IT)  *)
(* and the shared Firestore tracker record, as implemented by              *)
(* InitiativeBridgeManager (v8), ITPluginAccess (v3) and fieldMapping (v2). *)
(*                                                                         *)
(* Representation                                                          *)
(*  - a name is a tuple of words: "Goblin" = <<"Goblin">>,                 *)
(*    "Goblin 2" = <<"Goblin", 2>>                                         *)
(*  - local creature ids are positive integers, NoId = absent identity     *)
(*  - Null is the null initiative of a remote combatant                    *)
(*  - time is in milliseconds                                              *)
(*  - tempHp, initiative_modifier, conditions are copied and never read by *)
(*    the reconciliation code; they are left out of the records            *)
(***************************************************************************)
EXTENDS Integers, Sequences, FiniteSets, TLC

\* ----------------------------------------------------------------- bounds
TickMs == 1000
MaxTime == 2000
MaxInflight == 1
MaxCalls == 3

\* ------------------------------------------------------ program constants
ECHO_SUPPRESSION_MS == 2000
NoId == 0
Null == -1
NoData == [present |-> FALSE, combatants |-> <<>>, round |-> 0, turn |-> 0]
NoDoc == [exists |-> FALSE, combatants |-> <<>>, round |-> 0, turn |-> 0]

InitVals == {10, 18}

\* ------------------------------------------------------------ JS helpers
\* (x || 0) on a number-or-null value
Num(x) == IF x = Null THEN 0 ELSE x

Range(s) == {s[i] : i \in 1..Len(s)}

\* const v = ...; the rest of the block is F
Let(v, F(_)) == F(v)

\* Array.prototype.filter
Filter(s, Keep(_)) == SelectSeq(s, Keep)

\* Array.prototype.sort with a comparator: stable; Before(a,b) <=> cmp(a,b) < 0
SortBy(s, Before(_, _)) ==
    LET n == Len(s)
        Pos(i) == 1 + Cardinality({j \in 1..n :
                        \/ Before(s[j], s[i])
                        \/ (~Before(s[i], s[j]) /\ j < i)})
    IN [k \in 1..n |-> s[CHOOSE i \in 1..n : Pos(i) = k]]

\* Array.prototype.findIndex, 1-based, 0 when absent
FindIndex(s, P(_)) ==
    IF \E i \in 1..Len(s) : P(s[i])
    THEN CHOOSE i \in 1..Len(s) : P(s[i]) /\ \A j \in 1..(i-1) : ~P(s[j])
    ELSE 0

\* new Map(entries).get(key): the last entry with the key wins; 0 when absent
LastIndex(s, P(_)) ==
    IF \E i \in 1..Len(s) : P(s[i])
    THEN CHOOSE i \in 1..Len(s) : P(s[i]) /\ \A j \in (i+1)..Len(s) : ~P(s[j])
    ELSE 0

\* ------------------------------------------------- local session (IT)
getCreatureDisplayName(c) ==
    IF c.number = 0 THEN c.name ELSE Append(c.name, c.number)

\* c.getName?.() === name || c.name === name
MatchesName(c, name) == getCreatureDisplayName(c) = name \/ c.name = name

\* store.getOrderedCreatures(): initiative descending, then id
getOrderedCreatures(it) ==
    LET RECURSIVE Ord(_)
        Ord(S) == IF S = {} THEN <<>>
                  ELSE LET c == CHOOSE x \in S : \A y \in S :
                                   \/ x.initiative > y.initiative
                                   \/ (x.initiative = y.initiative /\ x.id <= y.id)
                       IN <<c>> \o Ord(S \ {c})
    IN Ord(it)

\* first creature of the ordered list matching the name; 0 when absent
FindCreature(it, name) ==
    LET ord == getOrderedCreatures(it)
        i == FindIndex(ord, LAMBDA c : MatchesName(c, name))
    IN IF i = 0 THEN NoId ELSE ord[i].id

Creature(it, id) == CHOOSE c \in it : c.id = id

Ids(it) == {c.id : c \in it}

\* store.updateCreatureByName(name, change)
UpdateByName(it, name, Change(_)) ==
    LET id == FindCreature(it, name)
    IN IF id = NoId THEN it
       ELSE {IF c.id = id THEN Change(c) ELSE c : c \in it}

setCreatureHP(it, name, hp) ==
    UpdateByName(it, name, LAMBDA c : [c EXCEPT !.hp = hp])

killCreature(it, name) ==
    UpdateByName(it, name, LAMBDA c : [c EXCEPT !.hp = 0, !.unconscious = TRUE])

setCreatureInitiative(it, name, initiative) ==
    UpdateByName(it, name, LAMBDA c : [c EXCEPT !.initiative = initiative])

setCreatureHidden(it, name, hidden) ==
    UpdateByName(it, name, LAMBDA c : [c EXCEPT !.hidden = hidden])

setActiveTurn(it, targetName) ==
    LET id == FindCreature(it, targetName)
    IN IF id = NoId THEN it
       ELSE {[c EXCEPT !.active = (c.id = id)] : c \in it}

removeCreatureByName(it, name) ==
    LET id == FindCreature(it, name)
    IN {c \in it : c.id # id}

\* numbering of creatures that share a base name ("Goblin 1", "Goblin 2")
setNumbers(it, new) ==
    LET same == {c \in it : c.name = new.name}
        MaxNum == IF same = {} THEN 0
                  ELSE CHOOSE m \in {c.number : c \in same} :
                           \A c \in same : c.number <= m
        renum == {IF c \in same /\ c.number = 0 THEN [c EXCEPT !.number = 1] ELSE c
                    : c \in it}
        base == IF same = {} THEN 0 ELSE (IF MaxNum = 0 THEN 1 ELSE MaxNum) + 1
    IN renum \cup {[new EXCEPT !.number = base]}

\* api.addCreatures([creature], false): fresh id, rolled initiative
addCreatures(it, creature, id, roll) ==
    setNumbers(it, [id |-> id, name |-> creature.name, number |-> 0,
                    hp |-> creature.hp, max |-> creature.hp, ac |-> creature.ac,
                    initiative |-> roll, hidden |-> creature.hidden,
                    active |-> FALSE, player |-> creature.player,
                    friendly |-> creature.friendly, unconscious |-> FALSE])

addCreaturesWithInitiative(it, creature, initiative, id, roll) ==
    setCreatureInitiative(addCreatures(it, creature, id, roll),
                          creature.name, initiative)

\* ---------------------------------------------------------- fieldMapping
itCreatureToWebappCombatant(creature) ==
    [id |-> <<"none", 0, 0>>,
     name |-> creature.name,
     type |-> IF creature.player THEN "Player Character"
              ELSE IF creature.friendly THEN "Summon" ELSE "Monster",
     initiative |-> creature.initiative,
     hp |-> creature.hp,
     maxHp |-> creature.max,
     ac |-> creature.ac,
     isDead |-> (creature.hp <= 0),
     isHiddenFromPlayers |-> creature.hidden,
     deathRound |-> 0,
     tieBreaker |-> 0,
     obsidianId |-> NoId,
     pcId |-> NoId,
     isPlayerSummon |-> FALSE,
     summonInstanceId |-> NoId]

webappCombatantToITCreature(combatant) ==
    [name |-> combatant.name,
     hp |-> combatant.maxHp,
     ac |-> combatant.ac,
     player |-> (combatant.type = "Player Character"),
     friendly |-> (combatant.type \in {"Summon", "Player Character"}),
     hidden |-> FALSE]

\* ------------------------------------------- records written by the bridge
\* combatant built for a local creature (createNewTracker, merge, new monster)
BridgeCombatant(c, now) ==
    [itCreatureToWebappCombatant(c) EXCEPT
        !.name = getCreatureDisplayName(c),
        !.id = <<"obs", c.id, now>>,
        !.obsidianId = c.id]

\* a record built from the creatures that are not player-controlled only
createNewTrackerMonstersOnly(it, now) ==
    LET ord == Filter(getOrderedCreatures(it), LAMBDA c : ~c.player)
    IN [exists |-> TRUE,
        combatants |-> [i \in 1..Len(ord) |-> BridgeCombatant(ord[i], now)],
        round |-> 1,
        turn |-> 0]

\* setDoc payload of createNewTracker
createNewTracker(it, now) ==
    LET ord == getOrderedCreatures(it)
    IN [exists |-> TRUE,
        combatants |-> [i \in 1..Len(ord) |-> BridgeCombatant(ord[i], now)],
        round |-> 1,
        turn |-> 0]

\* a merge that also appends the player-controlled creatures
MergeNewCombatantsWithPlayers(it, existingCombatants, now) ==
    LET existingObsidianIds ==
            {c.obsidianId : c \in {x \in Range(existingCombatants) : x.obsidianId # NoId}}
        ord == getOrderedCreatures(it)
        keep == Filter(ord, LAMBDA c : c.id \notin existingObsidianIds)
    IN [i \in 1..Len(keep) |-> BridgeCombatant(keep[i], now)]

\* combatants appended by mergeWithExistingTracker
MergeNewCombatants(it, existingCombatants, now) ==
    LET existingObsidianIds ==
            {c.obsidianId : c \in {x \in Range(existingCombatants) : x.obsidianId # NoId}}
        ord == getOrderedCreatures(it)
        keep == Filter(ord, LAMBDA c : c.id \notin existingObsidianIds /\ ~c.player)
    IN [i \in 1..Len(keep) |-> BridgeCombatant(keep[i], now)]

\* an updateDoc payload; ok = the write reached the record
Payload(hasCombatants, combatants, hasTurn, turn, ok) ==
    [hasCombatants |-> hasCombatants, combatants |-> combatants,
     hasTurn |-> hasTurn, turn |-> turn, ok |-> ok]

\* Object.keys(firestoreUpdate).length <= 1: nothing to write
NoWrite == Payload(FALSE, <<>>, FALSE, 0, FALSE)

\* updateDoc: field-level patch of the record
updateDoc(docu, w) ==
    IF ~docu.exists \/ ~w.ok THEN docu
    ELSE [docu EXCEPT
            !.combatants = IF w.hasCombatants THEN w.combatants ELSE @,
            !.turn = IF w.hasTurn THEN w.turn ELSE @]

\* the record after a sequence of updateDoc calls
RECURSIVE ApplyWrites(_, _)
ApplyWrites(docu, ws) ==
    IF ws = <<>> THEN docu
    ELSE ApplyWrites(updateDoc(docu, Head(ws)), Tail(ws))

\* snapshotITState: id -> last known state
snapshotITState(it) ==
    [id \in Ids(it) |->
        LET c == Creature(it, id)
        IN [name |-> getCreatureDisplayName(c), hp |-> c.hp,
            initiative |-> c.initiative, hidden |-> c.hidden, active |-> c.active]]

\* ------------------------------------------------ Obsidian -> Firestore
\* firestoreByObsId.get(id) || firestoreByName.get(name), as an index; 0 = none
FirestoreIndex(combs, id, name) ==
    LET byId == LastIndex(combs, LAMBDA fc : fc.obsidianId # NoId /\ fc.obsidianId = id)
    IN IF byId # 0 THEN byId ELSE LastIndex(combs, LAMBDA fc : fc.name = name)

\* comparator of the local-to-remote turn order
ActiveSortedBefore(a, b) ==
    \/ Num(b.initiative) - Num(a.initiative) < 0
    \/ (Num(b.initiative) - Num(a.initiative) = 0 /\ b.tieBreaker - a.tieBreaker < 0)

activeSorted(currentFirestoreCombatants) ==
    SortBy(Filter(currentFirestoreCombatants, LAMBDA fc : ~fc.isDead),
           ActiveSortedBefore)

\* creatures of the session that are new to the bridge and to the record
newMonsters(it, lastIds, combs, now) ==
    LET ord == getOrderedCreatures(it)
        new == Filter(ord, LAMBDA c :
                   /\ c.id \notin lastIds
                   /\ LastIndex(combs, LAMBDA fc : fc.obsidianId # NoId
                                                  /\ fc.obsidianId = c.id) = 0
                   /\ LastIndex(combs, LAMBDA fc :
                                     fc.name = getCreatureDisplayName(c)) = 0)
    IN [i \in 1..Len(new) |-> BridgeCombatant(new[i], now)]

\* the combatant fc after the hp / hidden / initiative changes of creature c
\* against its last known state prev
DetectFields(c, prev, fc, round) ==
    [fc EXCEPT
        !.hp = IF ~c.player /\ c.hp # prev.hp THEN c.hp ELSE @,
        !.isDead = IF ~c.player /\ c.hp # prev.hp THEN c.hp <= 0 ELSE @,
        !.deathRound = IF ~c.player /\ c.hp # prev.hp /\ c.hp <= 0 /\ @ = 0
                       THEN round ELSE @,
        !.isHiddenFromPlayers = IF c.hidden # prev.hidden THEN c.hidden ELSE @,
        !.initiative = IF c.initiative # prev.initiative THEN c.initiative ELSE @]

\* TRUE when one of those changes was detected (needsCombatantUpdate)
FieldsChanged(c, prev) ==
    \/ (~c.player /\ c.hp # prev.hp)
    \/ c.hidden # prev.hidden
    \/ c.initiative # prev.initiative

\* the turn change of creature c, detected on the edited combatants
DetectTurn(c, prev, acc, combs) ==
    Let(FindIndex(activeSorted(combs),
                  LAMBDA fc : fc.obsidianId = c.id
                                 \/ fc.name = getCreatureDisplayName(c)),
        LAMBDA turnIndex :
            [combs |-> combs,
             needs |-> acc.needs \/ FieldsChanged(c, prev),
             hasTurn |-> acc.hasTurn \/ (c.active /\ ~prev.active /\ turnIndex > 0),
             turn |-> IF c.active /\ ~prev.active /\ turnIndex > 0
                      THEN turnIndex - 1 ELSE acc.turn])

\* an iteration that gives up the changes detected so far when the creature
\* has no matching combatant
DetectCreatureOrAbort(c, lastMap, round, acc) ==
    Let(FirestoreIndex(acc.combs, c.id, getCreatureDisplayName(c)),
        LAMBDA k :
            IF c.id \notin DOMAIN lastMap THEN acc
            ELSE IF k = 0 THEN [acc EXCEPT !.needs = FALSE, !.hasTurn = FALSE]
            ELSE DetectTurn(c, lastMap[c.id], acc,
                            [acc.combs EXCEPT
                                ![k] = DetectFields(c, lastMap[c.id], @, round)]))

\* one iteration of the per-creature change detection
DetectCreature(c, lastMap, round, acc) ==
    Let(FirestoreIndex(acc.combs, c.id, getCreatureDisplayName(c)),
        LAMBDA k :
            IF c.id \notin DOMAIN lastMap \/ k = 0 THEN acc
            ELSE DetectTurn(c, lastMap[c.id], acc,
                            [acc.combs EXCEPT
                                ![k] = DetectFields(c, lastMap[c.id], @, round)]))

RECURSIVE DetectLoop(_, _, _, _, _)
DetectLoop(i, liveCreatures, lastMap, round, acc) ==
    IF i > Len(liveCreatures) THEN acc
    ELSE DetectLoop(i + 1, liveCreatures, lastMap, round,
                    DetectCreature(liveCreatures[i], lastMap, round, acc))

\* index in combs of the combatant the auto-reveal applies to; 0 = no reveal
AutoRevealIndex(liveCreatures, combs) ==
    Let(FindIndex(liveCreatures, LAMBDA c : c.active),
        LAMBDA ai :
            IF ai = 0 THEN 0
            ELSE IF liveCreatures[ai].player \/ ~liveCreatures[ai].hidden THEN 0
            ELSE Let(FirestoreIndex(combs, liveCreatures[ai].id,
                                    getCreatureDisplayName(liveCreatures[ai])),
                     LAMBDA fk :
                        IF fk # 0 /\ combs[fk].isHiddenFromPlayers THEN fk ELSE 0))

\* display name of the active creature (read only when there is one)
ActiveName(liveCreatures) ==
    getCreatureDisplayName(liveCreatures[FindIndex(liveCreatures, LAMBDA c : c.active)])

\* a cycle that writes the combatant list whether or not anything changed
CycleAlwaysWrites(it, liveCreatures, lastFS, det, new, fk, ok) ==
    Let(IF fk # 0 THEN [det.combs EXCEPT ![fk].isHiddenFromPlayers = FALSE]
        ELSE det.combs,
        LAMBDA combs :
            [write |-> Payload(TRUE, combs \o new, det.hasTurn, det.turn, ok),
             lastFS |-> IF lastFS = NoData THEN NoData
                        ELSE [lastFS EXCEPT !.combatants = combs],
             it |-> IF fk # 0
                    THEN setCreatureHidden(it, ActiveName(liveCreatures), FALSE)
                    ELSE it])

\* the payload, the edited baseline and the session at the end of the cycle
CycleResult(it, liveCreatures, lastFS, det, new, fk, ok) ==
    Let(IF fk # 0 THEN [det.combs EXCEPT ![fk].isHiddenFromPlayers = FALSE]
        ELSE det.combs,
        LAMBDA combs :
            [write |-> IF det.needs \/ fk # 0 \/ det.hasTurn
                       THEN Payload(det.needs \/ fk # 0,
                                    IF det.needs \/ fk # 0 THEN combs \o new ELSE <<>>,
                                    det.hasTurn, det.turn, ok)
                       ELSE NoWrite,
             lastFS |-> IF lastFS = NoData THEN NoData
                        ELSE [lastFS EXCEPT !.combatants = combs],
             it |-> IF fk # 0
                    THEN setCreatureHidden(it, ActiveName(liveCreatures), FALSE)
                    ELSE it])

\* the synchronous part of handleITStateChange, up to the awaited updateDoc
\*   it: live session, lastMap: local baseline, lastFS: remote baseline
\*   result: write = payload or NoWrite, lastFS = baseline after the in-place
\*   edits, it = session after the auto-reveal
handleITStateChange(it, lastMap, lastFS, now, ok) ==
    Let(getOrderedCreatures(it), LAMBDA liveCreatures :
    Let(IF lastFS = NoData THEN <<>> ELSE lastFS.combatants,
        LAMBDA currentFirestoreCombatants :
    Let(newMonsters(it, DOMAIN lastMap, currentFirestoreCombatants, now),
        LAMBDA new :
    Let(DetectLoop(1, liveCreatures, lastMap,
                   IF lastFS = NoData THEN 0 ELSE lastFS.round,
                   [combs |-> currentFirestoreCombatants,
                    needs |-> Len(new) > 0, hasTurn |-> FALSE, turn |-> 0]),
        LAMBDA det :
            CycleResult(it, liveCreatures, lastFS, det, new,
                        AutoRevealIndex(liveCreatures, det.combs), ok)))))

\* ------------------------------------------------ Firestore -> Obsidian
\* ids of the character documents referenced by PC / player-summon combatants
PcIdsOf(combatants) ==
    {c.pcId : c \in {x \in Range(combatants) :
                        /\ x.pcId # NoId
                        /\ (x.type = "Player Character" \/ x.isPlayerSummon)}}

\* refreshCharacterListenersIfNeeded: TRUE when the listeners are rebuilt
refreshCharacterListenersIfNeeded(combatants, monitored) ==
    LET currentPcIds == PcIdsOf(combatants)
    IN \/ Cardinality(currentPcIds) # Cardinality(monitored)
       \/ \E id \in currentPcIds : id \notin monitored

\* prevByObsId / prevByName lookup of a combatant in a combatant array; 0 = none
KeyIndex(list, c) ==
    IF c.obsidianId # NoId
    THEN LastIndex(list, LAMBDA p : p.obsidianId # NoId /\ p.obsidianId = c.obsidianId)
    ELSE LastIndex(list, LAMBDA p : p.name = c.name)

findITCreatureName(it, combatant) ==
    IF combatant.obsidianId # NoId /\ combatant.obsidianId \in Ids(it)
    THEN getCreatureDisplayName(Creature(it, combatant.obsidianId))
    ELSE combatant.name

\* comparator with the tie-breaker ascending
FirestoreTurnBeforeTieAscending(a, b) ==
    \/ Num(b.initiative) - Num(a.initiative) < 0
    \/ (Num(b.initiative) - Num(a.initiative) = 0 /\ a.tieBreaker - b.tieBreaker < 0)

\* comparator of the remote-to-local turn order
FirestoreTurnBefore(a, b) ==
    \/ Num(b.initiative) - Num(a.initiative) < 0
    \/ (Num(b.initiative) - Num(a.initiative) = 0 /\ b.tieBreaker - a.tieBreaker < 0)

sortedTurnOrder(combatants) ==
    SortBy(Filter(combatants, LAMBDA c : ~c.isDead), FirestoreTurnBefore)

\* turn index used as it is, without the wrap-around
activeIndexNoWrap(turnIndex, combatants) ==
    LET sorted == sortedTurnOrder(combatants)
    IN IF turnIndex >= Len(sorted) THEN -1 ELSE turnIndex

\* index (0-based) the turn resolves to; -1 when nothing can be activated
activeIndex(turnIndex, combatants) ==
    LET sorted == sortedTurnOrder(combatants)
    IN IF Len(sorted) = 0 THEN -1 ELSE turnIndex % Len(sorted)

\* the handlers below thread the bridge state
\*   S = [available, it, suppressITUntil, suppressFirestoreUntil, writes,
\*        nextId, inserted]
handleFirestoreTurnChange(S, data, now) ==
    LET ai == activeIndex(data.turn, data.combatants)
    IN IF ai < 0 THEN S
       ELSE LET targetCombatant == sortedTurnOrder(data.combatants)[ai + 1]
                itName == findITCreatureName(S.it, targetCombatant)
            IN [S EXCEPT !.suppressITUntil = now + ECHO_SUPPRESSION_MS,
                         !.it = setActiveTurn(S.it, itName)]

\* assignObsidianId: write the id of the matching creature back to the record
assignObsidianId(S, combatant, lastFS, now, okf) ==
    LET creatures == getOrderedCreatures(S.it)
        m == FindIndex(creatures, LAMBDA c : MatchesName(c, combatant.name))
        obsidianId == creatures[m].id
        updated == [i \in 1..Len(lastFS.combatants) |->
                      LET c == lastFS.combatants[i]
                      IN IF c.id = combatant.id \/ c.name = combatant.name
                         THEN [c EXCEPT !.obsidianId = obsidianId] ELSE c]
    IN IF m = 0 THEN S
       ELSE [S EXCEPT !.suppressFirestoreUntil = now + ECHO_SUPPRESSION_MS,
                      !.writes = Append(@, Payload(TRUE, updated, FALSE, 0,
                                                   okf[Len(S.writes) + 1]))]

\* TRUE when handleNewCombatantFromFirestore returns without inserting
alreadyExists(it, combatant) ==
    \/ (combatant.obsidianId # NoId /\ combatant.obsidianId \in Ids(it))
    \/ \E c \in it : getCreatureDisplayName(c) = combatant.name

handleNewCombatantFromFirestore(S, combatant, lastFS, now, roll, okf) ==
    IF alreadyExists(S.it, combatant) THEN S
    ELSE LET itCreature == webappCombatantToITCreature(combatant)
             added == [S EXCEPT
                 !.suppressITUntil = now + ECHO_SUPPRESSION_MS,
                 !.it = addCreaturesWithInitiative(S.it, itCreature,
                            Num(combatant.initiative), S.nextId, roll),
                 !.nextId = @ + 1,
                 !.inserted = @ \cup {<<combatant.id, S.nextId>>}]
         IN IF combatant.obsidianId = NoId
            THEN assignObsidianId(added, combatant, lastFS, now, okf)
            ELSE added

handleRemovedCombatantFromFirestore(S, combatant, now) ==
    LET itName == findITCreatureName(S.it, combatant)
    IN [S EXCEPT !.suppressITUntil = now + ECHO_SUPPRESSION_MS,
                 !.it = removeCreatureByName(S.it, itName)]

\* handleFirestoreChange(data, prevData); lastFirestoreState is already data
handleFirestoreChange(S0, data, prevData, now, roll, okf) ==
    LET combatants == data.combatants
        prevCombatants == IF prevData = NoData THEN <<>> ELSE prevData.combatants
        S1 == IF prevData # NoData /\ data.turn # prevData.turn
              THEN handleFirestoreTurnChange(S0, data, now) ELSE S0
        RECURSIVE New(_, _)
        New(i, S) ==
            IF i > Len(combatants) THEN S
            ELSE New(i + 1,
                     IF KeyIndex(prevCombatants, combatants[i]) = 0
                     THEN handleNewCombatantFromFirestore(S, combatants[i], data,
                                                          now, roll, okf)
                     ELSE S)
        S2 == New(1, S1)
        RECURSIVE Removed(_, _)
        Removed(i, S) ==
            IF i > Len(prevCombatants) THEN S
            ELSE Removed(i + 1,
                     IF KeyIndex(combatants, prevCombatants[i]) = 0
                     THEN handleRemovedCombatantFromFirestore(S, prevCombatants[i], now)
                     ELSE S)
        S3 == Removed(1, S2)
        Prev(c) == prevCombatants[KeyIndex(prevCombatants, c)]
        RECURSIVE Initiative(_, _)
        Initiative(i, S) ==
            IF i > Len(combatants) THEN S
            ELSE LET c == combatants[i]
                 IN Initiative(i + 1,
                     IF /\ KeyIndex(prevCombatants, c) # 0
                        /\ Prev(c).initiative # c.initiative
                        /\ c.initiative # Null
                     THEN [S EXCEPT
                             !.suppressITUntil = now + ECHO_SUPPRESSION_MS,
                             !.it = setCreatureInitiative(S.it,
                                        findITCreatureName(S.it, c), c.initiative)]
                     ELSE S)
        S4 == Initiative(1, S3)
        RECURSIVE Death(_, _)
        Death(i, S) ==
            IF i > Len(combatants) THEN S
            ELSE LET c == combatants[i]
                 IN Death(i + 1,
                     IF /\ KeyIndex(prevCombatants, c) # 0
                        /\ ~Prev(c).isDead /\ c.isDead
                     THEN [S EXCEPT
                             !.suppressITUntil = now + ECHO_SUPPRESSION_MS,
                             !.it = killCreature(S.it, findITCreatureName(S.it, c))]
                     ELSE S)
    IN IF ~S0.available THEN S0 ELSE Death(1, S4)

\* ------------------------------------------------------ character mirror
\* a character document; Null stands for a field the document does not have
NoWildshape == [present |-> FALSE, currentHP |-> Null, maxHPOverride |-> Null]
NoSummon == [present |-> FALSE, instanceId |-> NoId, currentHP |-> Null, maxHP |-> Null]
NoChar ==
    [exists |-> FALSE, rev |-> 0, currentHP |-> Null, hp |-> Null, maxHP |-> Null,
     maxHp |-> Null, armorClass |-> Null, ac |-> Null,
     activeWildshapeData |-> NoWildshape, activeSummon |-> NoSummon]

\* a ?? b
Coalesce(a, b) == IF a = Null THEN b ELSE a

\* a || b on a number
OrElse(a, b) == IF a = Null \/ a = 0 THEN b ELSE a

\* combatant.type === 'Summon' && combatant.isPlayerSummon
isSummon(combatant) == combatant.type = "Summon" /\ combatant.isPlayerSummon

\* hp, max hp and ac a character combatant takes from a document
CharacterStats(data) ==
    [hp |-> IF data.activeWildshapeData.present
            THEN data.activeWildshapeData.currentHP
            ELSE Coalesce(data.currentHP, data.hp),
     maxHp |-> IF data.activeWildshapeData.present
               THEN OrElse(data.activeWildshapeData.maxHPOverride,
                           data.activeWildshapeData.currentHP)
               ELSE Coalesce(data.maxHP, data.maxHp),
     ac |-> Coalesce(data.armorClass, data.ac)]

\* effective stats that take the active summon whatever its instance
EffectiveStatsAnyInstance(combatant, charData) ==
    IF isSummon(combatant)
    THEN IF charData.activeSummon.present
         THEN [skip |-> FALSE, hp |-> charData.activeSummon.currentHP,
               maxHp |-> charData.activeSummon.maxHP, ac |-> Null]
         ELSE [skip |-> TRUE, hp |-> Null, maxHp |-> Null, ac |-> Null]
    ELSE [skip |-> FALSE, hp |-> CharacterStats(charData).hp,
          maxHp |-> CharacterStats(charData).maxHp,
          ac |-> CharacterStats(charData).ac]

\* effective stats of a combatant; skip: the combatant is passed over
EffectiveStats(combatant, charData) ==
    IF isSummon(combatant)
    THEN IF /\ charData.activeSummon.present
            /\ charData.activeSummon.instanceId = combatant.summonInstanceId
         THEN [skip |-> FALSE, hp |-> charData.activeSummon.currentHP,
               maxHp |-> charData.activeSummon.maxHP, ac |-> Null]
         ELSE [skip |-> TRUE, hp |-> Null, maxHp |-> Null, ac |-> Null]
    ELSE [skip |-> FALSE, hp |-> CharacterStats(charData).hp,
          maxHp |-> CharacterStats(charData).maxHp,
          ac |-> CharacterStats(charData).ac]

\* previous effective stats for diffing; prevData = NoChar when there is none
PrevEffectiveStats(combatant, prevData) ==
    IF ~prevData.exists THEN [hp |-> Null, maxHp |-> Null, ac |-> Null]
    ELSE IF isSummon(combatant)
    THEN [hp |-> prevData.activeSummon.currentHP,
          maxHp |-> prevData.activeSummon.maxHP, ac |-> Null]
    ELSE CharacterStats(prevData)

\* one call of a setter of the local session
Push(op, name, hp, maxHp, ac) ==
    [op |-> op, name |-> name, hp |-> hp, maxHp |-> maxHp, ac |-> ac]

\* the incremental updates
IncrementalPushes(name, eff, prev) ==
    (IF eff.hp # Null /\ eff.hp # prev.hp
     THEN <<Push("setCreatureHP", name, eff.hp, Null, Null)>> ELSE <<>>)
    \o (IF eff.maxHp # Null /\ eff.maxHp # prev.maxHp
        THEN <<Push("setCreatureMaxHP", name, Null, eff.maxHp, Null)>> ELSE <<>>)
    \o (IF eff.ac # Null /\ eff.ac # prev.ac
        THEN <<Push("setCreatureAC", name, Null, Null, eff.ac)>> ELSE <<>>)

\* the setter calls of one iteration of the loop over the combatants
CombatantPushes(combatant, charData, prevData, eff) ==
    IF eff.skip THEN <<>>
    ELSE IF ~prevData.exists /\ eff.hp # Null /\ eff.maxHp # Null
    THEN <<Push("setCreatureFullStats", combatant.name, eff.hp, eff.maxHp, eff.ac)>>
    ELSE IF /\ prevData.activeWildshapeData.present
                  # charData.activeWildshapeData.present
            /\ eff.hp # Null /\ eff.maxHp # Null
    THEN <<Push("setCreatureFullStats", combatant.name, eff.hp, eff.maxHp, eff.ac)>>
    ELSE IncrementalPushes(combatant.name, eff,
                           PrevEffectiveStats(combatant, prevData))

RECURSIVE CharacterLoop(_, _, _, _, _)
CharacterLoop(i, combatants, pcId, charData, prevData) ==
    IF i > Len(combatants) THEN <<>>
    ELSE (IF combatants[i].pcId # pcId THEN <<>>
          ELSE CombatantPushes(combatants[i], charData, prevData,
                               EffectiveStats(combatants[i], charData)))
         \o CharacterLoop(i + 1, combatants, pcId, charData, prevData)

\* handleCharacterDataChange: the setter calls it makes, in order
handleCharacterDataChange(lastFS, pcId, charData, prevData) ==
    CharacterLoop(1, IF lastFS = NoData THEN <<>> ELSE lastFS.combatants,
                  pcId, charData, prevData)

setCreatureMaxHP(it, name, maxHp) ==
    UpdateByName(it, name, LAMBDA c : [c EXCEPT !.max = maxHp])

setCreatureAC(it, name, ac) ==
    UpdateByName(it, name, LAMBDA c : [c EXCEPT !.ac = ac])

\* hp, max hp and (when given) ac in one update
setCreatureFullStats(it, name, hp, maxHp, ac) ==
    UpdateByName(it, name, LAMBDA c :
        [c EXCEPT !.hp = hp, !.max = maxHp, !.ac = IF ac = Null THEN @ ELSE ac])

ApplyPush(it, p) ==
    CASE p.op = "setCreatureFullStats" ->
            setCreatureFullStats(it, p.name, p.hp, p.maxHp, p.ac)
      [] p.op = "setCreatureHP" -> setCreatureHP(it, p.name, p.hp)
      [] p.op = "setCreatureMaxHP" -> setCreatureMaxHP(it, p.name, p.maxHp)
      [] p.op = "setCreatureAC" -> setCreatureAC(it, p.name, p.ac)

RECURSIVE ApplyPushes(_, _)
ApplyPushes(it, ps) ==
    IF ps = <<>> THEN it ELSE ApplyPushes(ApplyPush(it, Head(ps)), Tail(ps))

\* ---------------------------------------------------------------- state
VARIABLES
    now,                    \* Date.now()
    itAvailable,            \* the Initiative Tracker plugin is loaded
    it,                     \* creatures of the local session
    nextId,                 \* next creature id the session hands out
    itPending,              \* a save-state notification is waiting
    remote,                 \* the tracker record (NoDoc when absent)
    fsPending,              \* the record feed has a snapshot to deliver
    isConnected,
    trackerId,
    firestoreUnsubscribe,   \* TRUE while the record listener is registered
    characterUnsubscribes,  \* character ids with a registered listener
    itEventRefs,            \* TRUE while the workspace listeners are registered
    listeners,              \* live registrations: record feed, workspace events
    monitoredPcIds,
    suppressFirestoreUntil,
    suppressITUntil,
    lastFirestoreState,
    lastITCreatureMap,
    inflight,               \* handleITStateChange calls suspended on updateDoc
    plan,                   \* edits the user and other clients still make
    calls,                  \* connect / disconnect calls
    act,                    \* the handler that ran last
    writes,                 \* updateDoc payloads issued by that handler
    inserted,               \* <<remote id, local id>> of every local insertion
    itRound,                \* round counter of the local session
    charDoc,                \* the document of character 1 (NoChar when absent)
    pcCharacterData,        \* the document last delivered (NoChar when none)
    charPending,            \* the character feed has a snapshot to deliver
    pushes                  \* setter calls of the last character-mirror event

vars == <<now, itAvailable, it, nextId, itPending, remote, fsPending, isConnected, trackerId,
          firestoreUnsubscribe, characterUnsubscribes, itEventRefs,
          monitoredPcIds, suppressFirestoreUntil, suppressITUntil,
          lastFirestoreState, lastITCreatureMap, inflight, plan, calls,
          act, writes, inserted, listeners, itRound, charDoc, pcCharacterData,
          charPending, pushes>>

mirrorVars == <<charDoc, pcCharacterData, charPending, pushes>>

bridgeVars == <<isConnected, trackerId, firestoreUnsubscribe,
                characterUnsubscribes, itEventRefs, listeners, monitoredPcIds,
                suppressFirestoreUntil, suppressITUntil,
                lastFirestoreState, lastITCreatureMap>>

lastITCreatureIds == DOMAIN lastITCreatureMap

NoTracker == 0

\* ----------------------------------------------------------- initial state
Monster(id, name, number, initiative, hidden, active) ==
    [id |-> id, name |-> name, number |-> number, hp |-> 5, max |-> 5, ac |-> 12,
     initiative |-> initiative, hidden |-> hidden, active |-> active,
     player |-> FALSE, friendly |-> FALSE, unconscious |-> FALSE]

Player(id, name, initiative, active) ==
    [id |-> id, name |-> name, number |-> 0, hp |-> 5, max |-> 5, ac |-> 12,
     initiative |-> initiative, hidden |-> FALSE, active |-> active,
     player |-> TRUE, friendly |-> TRUE, unconscious |-> FALSE]

WebCombatant(k, name, type, initiative, tieBreaker, hidden) ==
    [id |-> <<"web", k, 0>>, name |-> name, type |-> type,
     initiative |-> initiative, hp |-> 5, maxHp |-> 5, ac |-> 12,
     isDead |-> FALSE, isHiddenFromPlayers |-> hidden, deathRound |-> 0,
     tieBreaker |-> tieBreaker, obsidianId |-> NoId,
     pcId |-> IF type = "Player Character" THEN 1 ELSE NoId,
     isPlayerSummon |-> FALSE,
     summonInstanceId |-> NoId]

InitSessions ==
    { {Monster(1, <<"Goblin">>, 1, 18, TRUE, FALSE),
       Monster(2, <<"Goblin">>, 2, 10, TRUE, FALSE)},
      {Monster(1, <<"Orc">>, 0, 10, TRUE, FALSE),
       Player(2, <<"Hero">>, 18, TRUE)} }

InitRecords ==
    { NoDoc,
      [exists |-> TRUE, round |-> 1, turn |-> 0,
       combatants |-> <<WebCombatant(1, <<"Hero">>, "Player Character", 18, 5, FALSE),
                        WebCombatant(2, <<"Ogre">>, "Monster", 18, 12, TRUE)>>] }

\* an edit: kind k, target n (creature id, combatant index, turn, initiative),
\* value v (hp, initiative), name of an added creature or combatant
Edit(k, n, v, name) == [k |-> k, n |-> n, v |-> v, name |-> name]

\* the edits made by the user and by other clients while the bridge is connected
Plans ==
    { <<>>,
      <<Edit("UserSetHP", 1, 0, <<>>)>>,
      <<Edit("UserSetInitiative", 1, 12, <<>>), Edit("UserSetActive", 1, 0, <<>>)>>,
      <<Edit("UserSetActive", 1, 0, <<>>)>>,
      <<Edit("UserSetHidden", 1, 0, <<>>), Edit("UserSetActive", 1, 0, <<>>)>>,
      <<Edit("UserRemove", 1, 0, <<>>), Edit("UserAdd", 0, 0, <<"Orc">>)>>,
      <<Edit("UserAdd", 0, 0, <<"Goblin">>), Edit("UserSetHP", 1, 0, <<>>)>>,
      <<Edit("OtherSetTurn", 1, 0, <<>>)>>,
      <<Edit("OtherKill", 1, 0, <<>>), Edit("OtherSetTurn", 2, 0, <<>>)>>,
      <<Edit("OtherAdd", 18, 0, <<"Goblin">>)>>,
      <<Edit("OtherAdd", 10, 0, <<"Orc">>)>>,
      <<Edit("OtherRemove", 2, 0, <<>>)>>,
      <<Edit("OtherSetInitiative", 2, 14, <<>>)>>,
      <<Edit("OtherKill", 2, 0, <<>>)>>,
      <<Edit("OtherDelete", 0, 0, <<>>)>>,
      <<Edit("OtherSetHidden", 1, 0, <<>>), Edit("UserSetActive", 1, 0, <<>>)>>,
      <<Edit("OtherSetInitiative", 1, 14, <<>>), Edit("UserSetHP", 2, 0, <<>>)>>,
      <<Edit("UserRemove", 1, 0, <<>>), Edit("OtherRemove", 2, 0, <<>>)>>,
      <<Edit("OtherAdd", 10, 0, <<"Goblin">>), Edit("UserSetInitiative", 1, 12, <<>>)>>,
      <<Edit("UserSetHP", 1, 0, <<>>), Edit("UserRemove", 1, 0, <<>>),
        Edit("UserRemove", 2, 0, <<>>), Edit("UserAdd", 0, 0, <<"Orc">>)>>,
      <<Edit("UserSetInitiative", 2, 12, <<>>)>>,
      <<Edit("UserSetInitiative", 1, 4, <<>>), Edit("UserSetActive", 2, 0, <<>>)>>,
      <<Edit("UserAdd", 0, 0, <<"Goblin">>), Edit("UserSetActive", 3, 0, <<>>)>>,
      <<Edit("UserSetActive", 1, 0, <<>>), Edit("UserSetActive", 2, 0, <<>>)>>,
      <<Edit("OtherKill", 2, 0, <<>>), Edit("UserSetHP", 1, 0, <<>>)>>,
      <<Edit("OtherAdd", 18, 0, <<"Goblin">>), Edit("OtherKill", 3, 0, <<>>)>>,
      <<Edit("OtherAdd", 18, 0, <<"Goblin">>), Edit("OtherRemove", 3, 0, <<>>)>>,
      <<Edit("UserSetHP", 1, 0, <<>>), Edit("UserSetInitiative", 2, 12, <<>>)>> }

\* the edits other clients make while no local session is reachable
RemotePlans ==
    {p \in Plans : \A i \in 1..Len(p) :
        p[i].k \in {"OtherSetTurn", "OtherAdd", "OtherDelete"}}

Init ==
    /\ now = 0
    /\ itAvailable \in BOOLEAN
    /\ it \in (IF itAvailable THEN InitSessions ELSE {{}})
    /\ nextId = 3
    /\ itPending = FALSE
    /\ remote \in InitRecords
    /\ fsPending = FALSE
    /\ isConnected = FALSE
    /\ trackerId = NoTracker
    /\ firestoreUnsubscribe = FALSE
    /\ characterUnsubscribes = {}
    /\ itEventRefs = FALSE
    /\ listeners = [feed |-> 0, it |-> 0]
    /\ monitoredPcIds = {}
    /\ suppressFirestoreUntil = 0
    /\ suppressITUntil = 0
    /\ lastFirestoreState = NoData
    /\ lastITCreatureMap = snapshotITState({})
    /\ inflight = 0
    /\ plan \in (IF itAvailable THEN Plans ELSE RemotePlans)
    /\ calls = 0
    /\ act = "init"
    /\ writes = <<>>
    /\ inserted = {}
    /\ itRound = 1
    /\ charDoc = NoChar
    /\ pcCharacterData = NoChar
    /\ charPending = FALSE
    /\ pushes = <<>>

\* ------------------------------------------------------- connection
\* the fields of the bridge that disconnect() reads or assigns
BridgeState ==
    [isConnected |-> isConnected, isDisconnecting |-> FALSE,
     trackerId |-> trackerId, firestoreUnsubscribe |-> firestoreUnsubscribe,
     characterUnsubscribes |-> characterUnsubscribes,
     itEventRefs |-> itEventRefs, listeners |-> listeners,
     lastFirestoreState |-> lastFirestoreState,
     lastITCreatureMap |-> lastITCreatureMap,
     monitoredPcIds |-> monitoredPcIds,
     pcCharacterData |-> pcCharacterData]

\* the bridge after each statement group of disconnect(), in program order
disconnectSteps(B) ==
    LET s1 == [B EXCEPT !.isConnected = FALSE, !.isDisconnecting = TRUE]
        s2 == [s1 EXCEPT !.firestoreUnsubscribe = FALSE,
                         !.listeners.feed = IF s1.firestoreUnsubscribe
                                            THEN @ - 1 ELSE @]
        s3 == [s2 EXCEPT !.characterUnsubscribes = {}]
        s4 == [s3 EXCEPT !.itEventRefs = FALSE, !.listeners.it = 0]
        s5 == [s4 EXCEPT !.isDisconnecting = FALSE]
        s6 == [s5 EXCEPT !.trackerId = NoTracker,
                         !.lastFirestoreState = NoData,
                         !.lastITCreatureMap = snapshotITState({}),
                         !.pcCharacterData = NoChar]
    IN <<s1, s2, s3, s4, s5, s6>>

\* the bridge takes the fields of B; the queued deliveries are dropped
disconnectTo(B) ==
    /\ isConnected' = B.isConnected
    /\ firestoreUnsubscribe' = B.firestoreUnsubscribe
    /\ characterUnsubscribes' = B.characterUnsubscribes
    /\ itEventRefs' = B.itEventRefs
    /\ listeners' = B.listeners
    /\ trackerId' = B.trackerId
    /\ lastFirestoreState' = B.lastFirestoreState
    /\ lastITCreatureMap' = B.lastITCreatureMap
    /\ monitoredPcIds' = B.monitoredPcIds
    /\ pcCharacterData' = B.pcCharacterData
    /\ fsPending' = FALSE
    /\ itPending' = FALSE
    /\ charPending' = FALSE
    /\ UNCHANGED <<suppressFirestoreUntil, suppressITUntil>>

\* disconnect(): runs to completion without suspending
disconnect ==
    disconnectTo(disconnectSteps(BridgeState)[6])

Disconnect ==
    /\ calls < MaxCalls
    /\ calls' = calls + 1
    /\ disconnect
    /\ act' = "disconnect" /\ UNCHANGED <<itAvailable, itRound, charDoc, pushes>>
    /\ writes' = <<>>
    /\ UNCHANGED <<now, it, nextId, remote, inflight, plan, inserted>>

\* a connect that keeps the previous connection's listeners and baselines
ConnectKeepsConnection ==
    /\ calls < MaxCalls
    /\ calls' = calls + 1
    /\ trackerId' = 1
    /\ isConnected' = TRUE
    /\ lastITCreatureMap' = snapshotITState(it)
    /\ firestoreUnsubscribe' = TRUE
    /\ fsPending' = TRUE
    /\ itEventRefs' = TRUE
    /\ listeners' = [feed |-> listeners.feed + 1, it |-> listeners.it + 1]
    /\ itPending' = FALSE
    /\ act' = (IF isConnected THEN "reconnect" ELSE "connect")
    /\ writes' = <<>>
    /\ UNCHANGED <<now, itAvailable, it, nextId, remote, lastFirestoreState,
                   characterUnsubscribes, monitoredPcIds, suppressFirestoreUntil,
                   suppressITUntil, inflight, plan, inserted, itRound, mirrorVars>>

\* connect(caravanId, trackerId)
Connect ==
    /\ calls < MaxCalls
    /\ calls' = calls + 1
    /\ trackerId' = 1
    /\ isConnected' = TRUE
    /\ lastITCreatureMap' = snapshotITState(it)
    /\ lastFirestoreState' = IF isConnected THEN NoData ELSE lastFirestoreState
    /\ characterUnsubscribes' = IF isConnected THEN {} ELSE characterUnsubscribes
    /\ firestoreUnsubscribe' = TRUE
    /\ fsPending' = TRUE
    /\ itEventRefs' = TRUE
    /\ listeners' =
          [feed |-> (IF isConnected /\ firestoreUnsubscribe
                     THEN listeners.feed - 1 ELSE listeners.feed) + 1,
           it |-> (IF isConnected THEN 0 ELSE listeners.it) + 1]
    /\ itPending' = FALSE
    /\ act' = (IF isConnected THEN "reconnect" ELSE "connect")
    /\ writes' = <<>>
    /\ pcCharacterData' = IF isConnected THEN NoChar ELSE pcCharacterData
    /\ charPending' = IF isConnected THEN FALSE ELSE charPending
    /\ UNCHANGED <<now, itAvailable, it, nextId, remote, monitoredPcIds,
                   suppressFirestoreUntil, suppressITUntil, inflight, plan,
                   inserted, itRound, charDoc, pushes>>

\* createNewTracker, called before connecting
CreateRecord ==
    /\ calls = 0
    /\ ~remote.exists /\ ~isConnected
    /\ UNCHANGED calls
    /\ remote' = createNewTracker(it, now)
    /\ act' = "createNewTracker" /\ UNCHANGED <<itAvailable, itRound, mirrorVars>>
    /\ writes' = <<>>
    /\ UNCHANGED <<now, it, nextId, itPending, fsPending, bridgeVars, inflight,
                   plan, inserted>>

\* mergeWithExistingTracker, called before connecting
MergeRecord ==
    /\ calls = 0
    /\ remote.exists /\ ~isConnected
    /\ UNCHANGED calls
    /\ LET newCombatants == MergeNewCombatants(it, remote.combatants, now)
           w == Payload(TRUE, remote.combatants \o newCombatants, FALSE, 0, TRUE)
       IN IF Len(newCombatants) > 0
          THEN /\ remote' = updateDoc(remote, w)
               /\ writes' = <<w>>
               /\ fsPending' = (fsPending \/ firestoreUnsubscribe)
          ELSE /\ writes' = <<>>
               /\ UNCHANGED <<remote, fsPending>>
    /\ act' = "mergeWithExistingTracker" /\ UNCHANGED <<itAvailable, itRound, mirrorVars>>
    /\ UNCHANGED <<now, it, nextId, itPending, bridgeVars, inflight, plan, inserted>>

\* ------------------------------------------------ record feed (onSnapshot)
SnapshotData ==
    [present |-> TRUE, combatants |-> remote.combatants, round |-> remote.round,
     turn |-> remote.turn]

\* a deleted record that is only logged
SnapshotDeletedIgnored ==
    /\ ~remote.exists
    /\ fsPending' = FALSE
    /\ act' = "snapshot.deleted" /\ UNCHANGED <<itAvailable, itRound, mirrorVars>>
    /\ writes' = <<>>
    /\ UNCHANGED <<now, it, nextId, itPending, remote, bridgeVars, inflight, plan,
                   calls, inserted>>

\* the record no longer exists
SnapshotDeleted ==
    /\ ~remote.exists
    /\ disconnect
    /\ act' = "snapshot.deleted" /\ UNCHANGED <<itAvailable, itRound, charDoc, pushes>>
    /\ writes' = <<>>
    /\ UNCHANGED <<now, it, nextId, remote, inflight, plan, calls, inserted>>

\* result of handleFirestoreChange in the current state
FirestoreChangeResult(roll, fail) ==
    handleFirestoreChange(
        [available |-> itAvailable, it |-> it,
         suppressITUntil |-> suppressITUntil,
         suppressFirestoreUntil |-> suppressFirestoreUntil,
         writes |-> <<>>, nextId |-> nextId, inserted |-> inserted],
        SnapshotData, lastFirestoreState, now, roll,
        [i \in 1..Len(remote.combatants) |-> i # fail])

\* the effects of handleFirestoreChange, S its result
ApplyFirestoreChange(S) ==
    /\ lastFirestoreState' = SnapshotData
    /\ IF itAvailable /\ refreshCharacterListenersIfNeeded(SnapshotData.combatants,
                                                           monitoredPcIds)
       THEN /\ characterUnsubscribes' = PcIdsOf(SnapshotData.combatants)
            /\ monitoredPcIds' = PcIdsOf(SnapshotData.combatants)
            /\ charPending' = (charDoc.exists
                                /\ 1 \in PcIdsOf(SnapshotData.combatants))
       ELSE UNCHANGED <<characterUnsubscribes, monitoredPcIds, charPending>>
    /\ it' = S.it
    /\ nextId' = S.nextId
    /\ inserted' = S.inserted
    /\ suppressITUntil' = S.suppressITUntil
    /\ suppressFirestoreUntil' = S.suppressFirestoreUntil
    /\ writes' = S.writes
    /\ remote' = ApplyWrites(remote, S.writes)
    /\ fsPending' = (\E i \in 1..Len(S.writes) : S.writes[i].ok)
    /\ itPending' = (itPending \/ S.it # it)

\* a delivery inside the suppression window that is processed all the same
SnapshotIgnoresSuppression ==
    /\ remote.exists
    /\ now < suppressFirestoreUntil
    /\ \E roll \in InitVals, fail \in 0..2 :
          ApplyFirestoreChange(FirestoreChangeResult(roll, fail))
    /\ act' = "snapshot.processed" /\ UNCHANGED <<itAvailable, itRound>>
    /\ UNCHANGED <<charDoc, pcCharacterData, pushes>>
    /\ UNCHANGED <<now, isConnected, trackerId, firestoreUnsubscribe, itEventRefs, listeners,
                   lastITCreatureMap, inflight, plan, calls>>

\* Date.now() < suppressFirestoreUntil
SnapshotSuppressed ==
    /\ remote.exists
    /\ now < suppressFirestoreUntil
    /\ lastFirestoreState' = SnapshotData
    /\ IF characterUnsubscribes = {}
       THEN /\ characterUnsubscribes' = PcIdsOf(SnapshotData.combatants)
            /\ monitoredPcIds' = PcIdsOf(SnapshotData.combatants)
            /\ charPending' = (charDoc.exists
                                /\ 1 \in PcIdsOf(SnapshotData.combatants))
       ELSE UNCHANGED <<characterUnsubscribes, monitoredPcIds, charPending>>
    /\ fsPending' = FALSE
    /\ act' = "snapshot.suppressed" /\ UNCHANGED <<itAvailable, itRound>>
    /\ UNCHANGED <<charDoc, pcCharacterData, pushes>>
    /\ writes' = <<>>
    /\ UNCHANGED <<now, it, nextId, itPending, remote, isConnected, trackerId,
                   firestoreUnsubscribe, itEventRefs, listeners, suppressFirestoreUntil,
                   suppressITUntil, lastITCreatureMap, inflight, plan, calls,
                   inserted>>

SnapshotProcessed ==
    /\ remote.exists
    /\ ~(now < suppressFirestoreUntil)
    /\ \E roll \in InitVals, fail \in 0..2 :
          ApplyFirestoreChange(FirestoreChangeResult(roll, fail))
    /\ act' = "snapshot.processed" /\ UNCHANGED <<itAvailable, itRound>>
    /\ UNCHANGED <<charDoc, pcCharacterData, pushes>>
    /\ UNCHANGED <<now, isConnected, trackerId, firestoreUnsubscribe, itEventRefs, listeners,
                   lastITCreatureMap, inflight, plan, calls>>

FirestoreSnapshot ==
    /\ firestoreUnsubscribe
    /\ fsPending
    /\ (SnapshotDeleted \/ SnapshotSuppressed \/ SnapshotProcessed)

\* ------------------------------------- local notifications (save-state)
\* new-encounter guard: creatures were tracked and none of them is live
AllTrackedGone ==
    /\ lastITCreatureIds # {}
    /\ lastITCreatureIds \cap Ids(it) = {}

SaveStateSkipped ==
    /\ AllTrackedGone
    /\ itPending' = FALSE
    /\ act' = "save-state.skipped" /\ UNCHANGED <<itAvailable, itRound, mirrorVars>>
    /\ writes' = <<>>
    /\ UNCHANGED <<now, it, nextId, remote, fsPending, bridgeVars, inflight, plan,
                   calls, inserted>>

\* the effects of handleITStateChange up to its end (no write) or to the
\* awaited updateDoc, r its result
ApplyITStateChange(r) ==
    /\ it' = r.it
    /\ lastFirestoreState' = r.lastFS
    /\ itPending' = (r.it # it)
    /\ IF r.write = NoWrite
       THEN /\ lastITCreatureMap' = snapshotITState(r.it)
            /\ writes' = <<>>
            /\ UNCHANGED <<remote, fsPending, suppressFirestoreUntil, inflight>>
       ELSE /\ inflight < MaxInflight
            /\ suppressFirestoreUntil' = now + ECHO_SUPPRESSION_MS
            /\ remote' = updateDoc(remote, r.write)
            /\ fsPending' = (fsPending \/ (r.write.ok /\ remote.exists))
            /\ writes' = <<r.write>>
            /\ inflight' = inflight + 1
            /\ UNCHANGED lastITCreatureMap

\* a notification inside the suppression window that runs the cycle all the same
SaveStateIgnoresSuppression ==
    /\ ~AllTrackedGone
    /\ now < suppressITUntil
    /\ \E ok \in BOOLEAN :
          ApplyITStateChange(handleITStateChange(it, lastITCreatureMap,
                                                lastFirestoreState, now, ok))
    /\ act' = "save-state.cycle" /\ UNCHANGED <<itAvailable, itRound, mirrorVars>>
    /\ UNCHANGED <<now, nextId, isConnected, trackerId, firestoreUnsubscribe,
                   characterUnsubscribes, itEventRefs, listeners, monitoredPcIds,
                   suppressITUntil, plan, calls, inserted>>

\* Date.now() < suppressITUntil
SaveStateSuppressed ==
    /\ ~AllTrackedGone
    /\ now < suppressITUntil
    /\ lastITCreatureMap' = snapshotITState(it)
    /\ itPending' = FALSE
    /\ act' = "save-state.suppressed" /\ UNCHANGED <<itAvailable, itRound, mirrorVars>>
    /\ writes' = <<>>
    /\ UNCHANGED <<now, it, nextId, remote, fsPending, isConnected, trackerId,
                   firestoreUnsubscribe, characterUnsubscribes, itEventRefs, listeners,
                   monitoredPcIds, suppressFirestoreUntil, suppressITUntil,
                   lastFirestoreState, inflight, plan, calls, inserted>>

SaveStateCycle ==
    /\ ~AllTrackedGone
    /\ ~(now < suppressITUntil)
    /\ \E ok \in BOOLEAN :
          ApplyITStateChange(handleITStateChange(it, lastITCreatureMap,
                                                lastFirestoreState, now, ok))
    /\ act' = "save-state.cycle" /\ UNCHANGED <<itAvailable, itRound, mirrorVars>>
    /\ UNCHANGED <<now, nextId, isConnected, trackerId, firestoreUnsubscribe,
                   characterUnsubscribes, itEventRefs, listeners, monitoredPcIds,
                   suppressITUntil, plan, calls, inserted>>

ITSaveState ==
    /\ itEventRefs
    /\ itPending
    /\ isConnected
    /\ (SaveStateSkipped \/ SaveStateSuppressed \/ SaveStateCycle)

\* handleITStateChange resumes after the awaited updateDoc: snapshotITState()
ITStateChangeResume ==
    /\ inflight > 0
    /\ inflight' = inflight - 1
    /\ lastITCreatureMap' = snapshotITState(it)
    /\ act' = "save-state.resume" /\ UNCHANGED <<itAvailable, itRound, mirrorVars>>
    /\ writes' = <<>>
    /\ UNCHANGED <<now, it, nextId, itPending, remote, fsPending, isConnected,
                   trackerId, firestoreUnsubscribe, characterUnsubscribes,
                   itEventRefs, listeners, monitoredPcIds, suppressFirestoreUntil,
                   suppressITUntil, lastFirestoreState, plan, calls, inserted>>

\* ----------------------------------------------------------- environment
\* the next edit of the plan is of kind k
NextEdit(k) ==
    /\ plan # <<>>
    /\ Head(plan).k = k
    /\ isConnected
    /\ plan' = Tail(plan)

\* an edit of the session by its user; fires save-state
UserEdit(newIt) ==
    /\ itAvailable
    /\ newIt # it
    /\ it' = newIt
    /\ itPending' = (itPending \/ itEventRefs)
    /\ act' = "user" /\ UNCHANGED <<itAvailable, mirrorVars>>
    /\ writes' = <<>>
    /\ UNCHANGED <<now, remote, fsPending, bridgeVars, inflight, calls, inserted>>

UserSetHP ==
    /\ NextEdit("UserSetHP")
    /\ UserEdit({IF x.id = Head(plan).n THEN [x EXCEPT !.hp = Head(plan).v] ELSE x
                    : x \in it})
    /\ UNCHANGED <<nextId, itRound>>

UserSetInitiative ==
    /\ NextEdit("UserSetInitiative")
    /\ UserEdit({IF x.id = Head(plan).n THEN [x EXCEPT !.initiative = Head(plan).v]
                  ELSE x : x \in it})
    /\ UNCHANGED <<nextId, itRound>>

UserSetHidden ==
    /\ NextEdit("UserSetHidden")
    /\ UserEdit({IF x.id = Head(plan).n THEN [x EXCEPT !.hidden = ~@] ELSE x
                    : x \in it})
    /\ UNCHANGED <<nextId, itRound>>

\* the turn passes from the last creature of the order to the first one
WrapsAround(ordered, id) ==
    /\ Len(ordered) > 1
    /\ ordered[Len(ordered)].active
    /\ ordered[1].id = id

\* the turn passes to another creature; the round advances on a wrap-around
UserSetActive ==
    /\ NextEdit("UserSetActive")
    /\ Head(plan).n \in Ids(it)
    /\ UserEdit({[x EXCEPT !.active = (x.id = Head(plan).n)] : x \in it})
    /\ itRound' = IF WrapsAround(getOrderedCreatures(it), Head(plan).n)
                  THEN itRound + 1 ELSE itRound
    /\ UNCHANGED nextId

UserRemove ==
    /\ NextEdit("UserRemove")
    /\ UserEdit({x \in it : x.id # Head(plan).n})
    /\ UNCHANGED <<nextId, itRound>>

UserAdd ==
    /\ NextEdit("UserAdd")
    /\ UserEdit(setNumbers(it, Monster(nextId, Head(plan).name, 0, 10, TRUE, FALSE)))
    /\ nextId' = nextId + 1
    /\ UNCHANGED itRound

\* an edit of the record by another client; the feed reports it
OtherEdit(newDoc) ==
    /\ remote.exists
    /\ newDoc # remote
    /\ remote' = newDoc
    /\ fsPending' = (fsPending \/ firestoreUnsubscribe)
    /\ act' = "other" /\ UNCHANGED <<itAvailable, itRound, mirrorVars>>
    /\ writes' = <<>>
    /\ UNCHANGED <<now, it, nextId, itPending, bridgeVars, inflight, calls, inserted>>

OtherSetInitiative ==
    /\ NextEdit("OtherSetInitiative")
    /\ Head(plan).n <= Len(remote.combatants)
    /\ OtherEdit([remote EXCEPT !.combatants[Head(plan).n].initiative = Head(plan).v])

OtherKill ==
    /\ NextEdit("OtherKill")
    /\ Head(plan).n <= Len(remote.combatants)
    /\ OtherEdit([remote EXCEPT !.combatants[Head(plan).n].isDead = TRUE,
                                !.combatants[Head(plan).n].hp = 0,
                                !.combatants[Head(plan).n].deathRound =
                                    IF @ = 0 THEN remote.round ELSE @])

OtherSetHidden ==
    /\ NextEdit("OtherSetHidden")
    /\ Head(plan).n <= Len(remote.combatants)
    /\ OtherEdit([remote EXCEPT
                    !.combatants[Head(plan).n].isHiddenFromPlayers = ~@])

OtherSetTurn ==
    /\ NextEdit("OtherSetTurn")
    /\ OtherEdit([remote EXCEPT !.turn = Head(plan).n])

OtherRemove ==
    /\ NextEdit("OtherRemove")
    /\ Head(plan).n <= Len(remote.combatants)
    /\ OtherEdit([remote EXCEPT !.combatants =
            [k \in 1..(Len(@) - 1) |-> IF k < Head(plan).n THEN @[k] ELSE @[k + 1]]])

\* other clients keep the names of the record distinct
OtherAdd ==
    /\ NextEdit("OtherAdd")
    /\ \A i \in 1..Len(remote.combatants) : remote.combatants[i].name # Head(plan).name
    /\ OtherEdit([remote EXCEPT !.combatants =
           Append(@, WebCombatant(10 + Len(plan), Head(plan).name, "Monster",
                                  Head(plan).n, 5, FALSE))])

OtherDelete ==
    /\ NextEdit("OtherDelete")
    /\ OtherEdit(NoDoc)

\* time passes; only observed while a suppression window is open
Tick ==
    /\ now + TickMs <= MaxTime
    /\ (now < suppressFirestoreUntil \/ now < suppressITUntil)
    /\ now' = now + TickMs
    /\ act' = "tick" /\ UNCHANGED <<itAvailable, itRound, mirrorVars>>
    /\ writes' = <<>>
    /\ UNCHANGED <<it, nextId, itPending, remote, fsPending, bridgeVars, inflight,
                   plan, calls, inserted>>

Next ==
    \/ Connect
    \/ Disconnect
    \/ CreateRecord
    \/ MergeRecord
    \/ FirestoreSnapshot
    \/ ITSaveState
    \/ ITStateChangeResume
    \/ UserSetHP
    \/ UserSetInitiative
    \/ UserSetHidden
    \/ UserSetActive
    \/ UserRemove
    \/ UserAdd
    \/ OtherSetInitiative
    \/ OtherKill
    \/ OtherSetHidden
    \/ OtherSetTurn
    \/ OtherRemove
    \/ OtherAdd
    \/ OtherDelete
    \/ Tick

Spec == Init /\ [][Next]_vars

\* ------------------------------------------- turn resolution on drawn records
\* A connected bridge whose record holds NumCombatants linked combatants with
\* drawn initiative, tie-breaker and death flags and a drawn turn index; the
\* baseline is the record before the deaths and the turn change.
NumCombatants == 3
MaxTurnIndex == 4

TurnProfiles ==
    { [initiative |-> 18, tieBreaker |-> 5, isDead |-> FALSE],
      [initiative |-> 18, tieBreaker |-> 12, isDead |-> FALSE],
      [initiative |-> 10, tieBreaker |-> 12, isDead |-> FALSE],
      [initiative |-> Null, tieBreaker |-> 5, isDead |-> FALSE],
      [initiative |-> 18, tieBreaker |-> 12, isDead |-> TRUE] }

TurnCombatant(i, p) ==
    [WebCombatant(i, <<"Foe", i>>, "Monster", p.initiative, p.tieBreaker, FALSE)
        EXCEPT !.obsidianId = i, !.isDead = p.isDead]

InitTurn ==
    /\ \E f \in [1..NumCombatants -> TurnProfiles], t \in 0..MaxTurnIndex :
        LET combatants == [i \in 1..NumCombatants |-> TurnCombatant(i, f[i])]
            alive == [i \in 1..NumCombatants |->
                        [combatants[i] EXCEPT !.isDead = FALSE]]
        IN /\ it = {Monster(i, <<"Foe">>, i, Num(f[i].initiative), FALSE, FALSE)
                      : i \in 1..NumCombatants}
           /\ remote = [exists |-> TRUE, combatants |-> combatants, round |-> 1,
                        turn |-> t]
           /\ lastFirestoreState =
                 [present |-> TRUE, combatants |-> alive, round |-> 1,
                  turn |-> (t + 1) % (MaxTurnIndex + 1)]
    /\ lastITCreatureMap = snapshotITState(it)
    /\ now = 0
    /\ itAvailable = TRUE
    /\ nextId = NumCombatants + 1
    /\ itPending = FALSE
    /\ fsPending = TRUE
    /\ isConnected = TRUE
    /\ trackerId = 1
    /\ firestoreUnsubscribe = TRUE
    /\ characterUnsubscribes = {}
    /\ itEventRefs = TRUE
    /\ listeners = [feed |-> 1, it |-> 1]
    /\ monitoredPcIds = {}
    /\ suppressFirestoreUntil = 0
    /\ suppressITUntil = 0
    /\ inflight = 0
    /\ plan = <<Edit("UserSetActive", 1, 0, <<>>)>>
    /\ calls = 1
    /\ act = "init"
    /\ writes = <<>>
    /\ inserted = {}
    /\ itRound = 1
    /\ charDoc = NoChar
    /\ pcCharacterData = NoChar
    /\ charPending = FALSE
    /\ pushes = <<>>

NextTurn ==
    \/ FirestoreSnapshot
    \/ ITSaveState
    \/ ITStateChangeResume
    \/ UserSetActive

SpecTurn == InitTurn /\ [][NextTurn]_vars

\* ------------------------------------------------------------ properties
SnapshotActs == {"snapshot.deleted", "snapshot.suppressed", "snapshot.processed"}
SaveStateActs == {"save-state.skipped", "save-state.suppressed", "save-state.cycle"}

CombatantIds(combatants) == {combatants[i].id : i \in 1..Len(combatants)}

\* C1: a record snapshot delivered before the remote suppression deadline
\* (set to write time + 2000 ms by every bridge write) changes neither the
\* session nor the record, issues no write, and becomes the remote baseline.
C1_EchoBoundRemote ==
    [][ /\ (act' \in SnapshotActs /\ remote.exists /\ now < suppressFirestoreUntil)
            => /\ it' = it
               /\ writes' = <<>>
               /\ remote' = remote
               /\ lastFirestoreState' = SnapshotData
               /\ lastITCreatureMap' = lastITCreatureMap
               /\ suppressITUntil' = suppressITUntil
        /\ (act' \in (SnapshotActs \cup SaveStateActs) /\ writes' # <<>>)
            => suppressFirestoreUntil' = now + ECHO_SUPPRESSION_MS ]_vars

C1_Witness ==
    /\ act = "snapshot.suppressed"
    /\ now < suppressFirestoreUntil
    /\ lastFirestoreState.present
    /\ \E i \in 1..Len(remote.combatants) : remote.combatants[i].obsidianId # NoId

\* C2 (as stated): a save-state notification handled before the local
\* suppression deadline issues no write and re-snapshots the local baseline.
C2_EchoBoundLocal_Original ==
    [][ (act' \in SaveStateActs /\ now < suppressITUntil)
            => /\ writes' = <<>>
               /\ remote' = remote
               /\ lastITCreatureMap' = snapshotITState(it) ]_vars

\* C2 (amended): such a notification issues no write; it re-snapshots the local
\* baseline unless every tracked creature is gone, and then leaves it as it is.
C2_EchoBoundLocal ==
    [][ (act' \in SaveStateActs /\ now < suppressITUntil)
            => /\ writes' = <<>>
               /\ remote' = remote
               /\ lastFirestoreState' = lastFirestoreState
               /\ IF AllTrackedGone
                  THEN lastITCreatureMap' = lastITCreatureMap
                  ELSE lastITCreatureMap' = snapshotITState(it) ]_vars

C2_Witness ==
    /\ act = "save-state.suppressed"
    /\ now < suppressITUntil
    /\ lastITCreatureMap = snapshotITState(it)
    /\ lastFirestoreState.present

\* C3: a record combatant whose local creature was deleted from the session
\* only is still in the record after the sync cycle that sees the deletion.
C3_AsymmetricRemoval ==
    [][ act' = "save-state.cycle"
            => \A i \in 1..Len(remote.combatants) :
                  LET rc == remote.combatants[i]
                  IN (rc.obsidianId \in lastITCreatureIds \ Ids(it))
                        => rc.id \in CombatantIds(remote'.combatants) ]_vars

\* The record combatant with the given id in a combatant list.
CombatantById(combatants, id) ==
    combatants[CHOOSE i \in 1..Len(combatants) : combatants[i].id = id]

\* C4 (guard): a delivery inserts a creature for a record combatant only if no
\* creature of the session has its bridge identity or its display name.
C4_NoDoubleAddGuard ==
    [][ \A p \in inserted' \ inserted :
            LET c == CombatantById(remote.combatants, p[1])
            IN /\ ~(c.obsidianId # NoId /\ c.obsidianId \in Ids(it))
               /\ \A x \in it : getCreatureDisplayName(x) # c.name ]_vars

\* C4: over any sequence of deliveries no record combatant gets a second
\* creature while a creature inserted for it earlier is still in the session.
C4_NoDoubleAdd ==
    [][ \A p \in inserted' \ inserted :
            \A q \in inserted : q[1] = p[1] => q[2] \notin Ids(it') ]_vars

\* C5: no write of the bridge changes or removes the bridge identity of a
\* combatant that already has one in the record and is still in the written list.
C5_IdentityStability ==
    [][ act' \in (SnapshotActs \cup SaveStateActs)
            => \A k \in 1..Len(writes') :
                  LET before == ApplyWrites(remote, SubSeq(writes', 1, k - 1)).combatants
                      w      == writes'[k]
                  IN (w.ok /\ w.hasCombatants)
                        => \A i \in 1..Len(before) : \A j \in 1..Len(w.combatants) :
                              (before[i].obsidianId # NoId /\ w.combatants[j].id = before[i].id)
                                 => w.combatants[j].obsidianId = before[i].obsidianId ]_vars

\* C8: when a sync cycle sees a hidden monster active whose record combatant is
\* in the baseline and in the record, and its writes succeed, the creature is
\* visible in the session and the combatant is not hidden in the record afterwards.
C8_AutoRevealLocal ==
    [][ (act' = "save-state.cycle" /\ lastFirestoreState.present
            /\ \A k \in 1..Len(writes') : writes'[k].ok)
            => \A c \in it :
                  (c.active /\ ~c.player /\ c.hidden
                     /\ FirestoreIndex(lastFirestoreState.combatants, c.id,
                                       getCreatureDisplayName(c)) # 0
                     /\ FirestoreIndex(remote.combatants, c.id,
                                       getCreatureDisplayName(c)) # 0)
                  => /\ \A x \in it' : x.id = c.id => ~x.hidden
                     /\ \A j \in 1..Len(remote'.combatants) :
                           remote'.combatants[j].obsidianId = c.id
                              => ~remote'.combatants[j].isHiddenFromPlayers ]_vars

\* C9: a delivery reporting that the record no longer exists disconnects the
\* bridge and drops every subscription, and the bridge never becomes connected
\* again except through a connect call.
C9_RemoteDeletion ==
    [][ /\ (act' \in SnapshotActs /\ ~remote.exists)
            => /\ act' = "snapshot.deleted"
               /\ ~isConnected'
               /\ trackerId' = NoTracker
               /\ ~firestoreUnsubscribe'
               /\ characterUnsubscribes' = {}
               /\ ~itEventRefs'
               /\ it' = it /\ writes' = <<>>
        /\ (~isConnected /\ isConnected') => act' = "connect" ]_vars

C9_Witness ==
    /\ act = "snapshot.deleted"
    /\ ~remote.exists
    /\ ~isConnected /\ ~firestoreUnsubscribe /\ ~itEventRefs
    /\ it # {}

\* The creatures of the session that a remote combatant resolves to: the one
\* carrying its bridge identity, else those displayed under its name.
TurnTargetIds(session, target) ==
    IF target.obsidianId # NoId /\ target.obsidianId \in Ids(session)
    THEN {target.obsidianId}
    ELSE {x.id : x \in {y \in session : getCreatureDisplayName(y) = target.name}}

\* C6: a delivered turn index t different from the baseline's activates the
\* creature of the combatant at position t mod n of the sorted non-dead list
\* (n its length), also when t >= n after a death: when that combatant
\* resolves to one creature of the session, that creature and no other of
\* the session is active afterwards; with n = 0 no creature's active flag
\* changes.
C6_TurnIndexResolution ==
    [][ (act' = "snapshot.processed" /\ lastFirestoreState.present
            /\ remote.turn # lastFirestoreState.turn)
            => LET n == Cardinality({i \in 1..Len(remote.combatants) :
                                        ~remote.combatants[i].isDead})
               IN IF n = 0
                  THEN {x.id : x \in {y \in it' : y.active}}
                          = {x.id : x \in {y \in it : y.active}}
                  ELSE LET target == sortedTurnOrder(remote.combatants)
                                         [(remote.turn % n) + 1]
                       IN Cardinality(TurnTargetIds(it, target)) = 1
                             => \A x \in it' :
                                   x.id \in Ids(it)
                                      => (x.active <=> x.id \in TurnTargetIds(it, target)) ]_vars

C6_Witness ==
    LET n == Cardinality({i \in 1..Len(remote.combatants) :
                             ~remote.combatants[i].isDead})
    IN /\ act = "snapshot.processed"
       /\ n > 0
       /\ n < Len(remote.combatants)
       /\ remote.turn >= n
       /\ \E x \in it :
             /\ x.active
             /\ x.id = sortedTurnOrder(remote.combatants)[(remote.turn % n) + 1].obsidianId

\* C7: both directions use the same turn order: the non-dead combatants, by
\* initiative descending and then tie-breaker descending; two combatants of
\* initiative 15 with tie-breakers 5 (A) and 12 (B) are ordered B, A.
C7_TurnOrdering ==
    /\ \A list \in {remote.combatants, lastFirestoreState.combatants} :
          LET s == sortedTurnOrder(list)
          IN /\ activeSorted(list) = s
             /\ Len(s) = Cardinality({i \in 1..Len(list) : ~list[i].isDead})
             /\ \A k \in 1..Len(s) :
                   ~s[k].isDead /\ \E i \in 1..Len(list) : list[i] = s[k]
             /\ \A k, m \in 1..Len(s) : k # m => s[k].id # s[m].id
             /\ \A k \in 1..(Len(s) - 1) :
                   \/ Num(s[k].initiative) > Num(s[k + 1].initiative)
                   \/ /\ Num(s[k].initiative) = Num(s[k + 1].initiative)
                      /\ s[k].tieBreaker >= s[k + 1].tieBreaker
    /\ LET A == WebCombatant(1, <<"A">>, "Monster", 15, 5, FALSE)
           B == WebCombatant(2, <<"B">>, "Monster", 15, 12, FALSE)
       IN /\ sortedTurnOrder(<<A, B>>) = <<B, A>>
          /\ activeSorted(<<A, B>>) = <<B, A>>

C7_Witness ==
    /\ act = "snapshot.processed"
    /\ \E i, j \in 1..Len(remote.combatants) :
          LET a == remote.combatants[i]
              b == remote.combatants[j]
          IN /\ i < j
             /\ ~a.isDead /\ ~b.isDead
             /\ a.initiative = b.initiative
             /\ a.tieBreaker < b.tieBreaker
             /\ sortedTurnOrder(remote.combatants)[1] = b
             /\ \E x \in it : x.active /\ x.id = b.obsidianId

\* A second run of the sync cycle right after a first one, on the session and
\* the remote baseline the first run left.
SecondCycle(session, lastFS, t) ==
    handleITStateChange(session, snapshotITState(session), lastFS, t, TRUE)

\* A delivery whose content equals the remote baseline.
BaselineRedelivery(session, lastFS, t, roll) ==
    handleFirestoreChange(
        [available |-> itAvailable, it |-> session,
         suppressITUntil |-> 0, suppressFirestoreUntil |-> 0,
         writes |-> <<>>, nextId |-> nextId, inserted |-> {}],
        lastFS, lastFS, t, roll, [i \in 1..Len(lastFS.combatants) |-> TRUE])

\* C10: a sync cycle run again right after a sync cycle issues no write, and a
\* delivery identical to the remote baseline changes nothing in the session.
C10_Idempotence ==
    [][ /\ act' = "save-state.cycle"
            => SecondCycle(it', lastFirestoreState', now').write = NoWrite
        /\ (isConnected' /\ lastFirestoreState'.present)
            => \A roll \in InitVals :
                  BaselineRedelivery(it', lastFirestoreState', now', roll).it = it' ]_vars

\* C11: a connect call made while the Initiative Tracker plugin is not loaded
\* fails and leaves the bridge not connected, bound to no record, with no
\* record feed and no workspace listener.
C11_ConnectFailsFast ==
    [][ (act' \in {"connect", "reconnect"} /\ ~itAvailable)
            => /\ ~isConnected'
               /\ trackerId' = NoTracker
               /\ ~firestoreUnsubscribe'
               /\ ~itEventRefs'
               /\ listeners' = [feed |-> 0, it |-> 0] ]_vars

C13_DisconnectNoOp ==
    [][ (act' = "disconnect" /\ ~isConnected) => UNCHANGED bridgeVars ]_vars

\* TRUE when the bridge B holds no subscription
Unsubscribed(B) ==
    /\ ~B.firestoreUnsubscribe
    /\ B.characterUnsubscribes = {}
    /\ ~B.itEventRefs

\* TRUE when the snapshots and maps of the bridge B hold no entry
Cleared(B) ==
    /\ B.lastFirestoreState = NoData
    /\ DOMAIN B.lastITCreatureMap = {}
    /\ B.monitoredPcIds = {}

\* C14: disconnect raises the tearing-down flag in its first step, lowers it
\* only in a step by which every subscription is released and every snapshot
\* and map is cleared, and releases the subscriptions no later than it
\* clears the snapshots; when it returns the bridge holds no subscription and
\* no snapshot or map entry (remote baseline, local id set and map,
\* monitored character ids).
C14_TeardownOrder ==
    [][ act' = "disconnect"
            => LET tr == disconnectSteps(BridgeState)
               IN /\ tr[1].isDisconnecting
                  /\ \A k \in 2..Len(tr) :
                        (tr[k - 1].isDisconnecting /\ ~tr[k].isDisconnecting)
                           => (Unsubscribed(tr[k]) /\ Cleared(tr[k]))
                  /\ \A k \in 1..Len(tr) : Cleared(tr[k]) => Unsubscribed(tr[k])
                  /\ Unsubscribed(BridgeState') /\ Cleared(BridgeState') ]_vars

\* C15: createNewTracker stores a record with round 1 and turn 0 whose
\* combatant list has one combatant per creature of the session and no
\* other, each with the creature's id as bridge identity and the creature's
\* displayed name.
C15_CreateRecord ==
    [][ act' = "createNewTracker"
            => /\ remote'.exists
               /\ remote'.round = 1 /\ remote'.turn = 0
               /\ Len(remote'.combatants) = Cardinality(it)
               /\ \A c \in it :
                     \E i \in 1..Len(remote'.combatants) :
                        /\ remote'.combatants[i].obsidianId = c.id
                        /\ remote'.combatants[i].name = getCreatureDisplayName(c)
               /\ it' = it ]_vars

\* a record created from a session with a monster and a player
C15_Witness ==
    /\ act = "createNewTracker"
    /\ \E c \in it : c.player
    /\ \E c \in it : ~c.player
    /\ Len(remote.combatants) = 2

\* the ids of the creatures a merge has to append to the combatants
Unmerged(session, combatants) ==
    {c.id : c \in {x \in session :
                     /\ ~x.player
                     /\ \A i \in 1..Len(combatants) :
                           combatants[i].obsidianId # x.id}}

\* C16: mergeWithExistingTracker keeps every combatant of the record in place
\* and unmodified, appends one combatant for each creature that is not
\* player-controlled and whose id is no bridge identity in the record (with
\* that id as bridge identity) and nothing else, and issues no write when
\* there is none; after a merge no creature is left to append, so a second
\* merge in a row appends nothing.
C16_MergeIsUnion ==
    [][ act' = "mergeWithExistingTracker"
            => LET old == remote.combatants
                   new == remote'.combatants
               IN /\ Len(new) = Len(old) + Cardinality(Unmerged(it, old))
                  /\ SubSeq(new, 1, Len(old)) = old
                  /\ {new[i].obsidianId : i \in (Len(old) + 1)..Len(new)}
                        = Unmerged(it, old)
                  /\ Len(writes') = (IF Unmerged(it, old) = {} THEN 0 ELSE 1)
                  /\ remote'.round = remote.round /\ remote'.turn = remote.turn
                  /\ Unmerged(it', new) = {}
                  /\ act = "mergeWithExistingTracker"
                        => (remote' = remote /\ writes' = <<>>) ]_vars

\* a second merge in a row, on a record that holds combatants of other
\* clients and the combatants the first merge appended
C16_Witness ==
    /\ act = "mergeWithExistingTracker"
    /\ writes = <<>>
    /\ \E i \in 1..Len(remote.combatants) : remote.combatants[i].obsidianId = NoId
    /\ \E i \in 1..Len(remote.combatants) : remote.combatants[i].obsidianId # NoId
    /\ \E c \in it : c.player

\* C17: a save-state notification that finds creatures tracked and none of
\* them in the session issues no write and changes neither baseline; and
\* once that is so it stays so while the bridge stays connected and no
\* tracked creature is back in the session, so every later notification is
\* skipped as well.
C17_NewEncounterGuard ==
    [][ /\ (act' \in SaveStateActs /\ AllTrackedGone)
            => /\ act' = "save-state.skipped"
               /\ writes' = <<>> /\ remote' = remote
               /\ lastITCreatureMap' = lastITCreatureMap
               /\ lastFirestoreState' = lastFirestoreState
        /\ (/\ AllTrackedGone /\ isConnected
            /\ act' \notin {"disconnect", "reconnect", "snapshot.deleted"}
            /\ lastITCreatureIds \cap Ids(it') = {})
            => (lastITCreatureIds' = lastITCreatureIds /\ AllTrackedGone') ]_vars

\* C18: a step of a bridge handler (record feed, save-state listener, the
\* resumption of a cycle suspended on its write) taken while the bridge is
\* not connected issues no write, leaves the record and the session as they
\* are and leaves both baselines and the monitored ids as they are.
C18_TeardownNoOps ==
    [][ (/\ ~isConnected
         /\ act' \in SnapshotActs \cup SaveStateActs \cup {"save-state.resume"})
            => /\ writes' = <<>> /\ remote' = remote
               /\ it' = it
               /\ lastITCreatureMap' = lastITCreatureMap
               /\ lastFirestoreState' = lastFirestoreState
               /\ monitoredPcIds' = monitoredPcIds ]_vars

\* the combatants of the payload w that the record does not hold as they are
Unpropagated(w, docu) ==
    {c \in Range(w.combatants) :
        \A i \in 1..Len(docu.combatants) : docu.combatants[i] # c}

\* the write a cycle would issue on the state the failed cycle left
Retry ==
    handleITStateChange(it', lastITCreatureMap', lastFirestoreState', now',
                        TRUE).write

\* C19: when the write of a cycle failed and the cycle has finished, a cycle
\* run on a notification would issue a write again, carrying the turn and
\* every combatant (changed or new) of the failed write that the record does
\* not hold.
C19_SelfHealing ==
    [][ (/\ act = "save-state.cycle" /\ Len(writes) = 1 /\ ~writes[1].ok
         /\ remote.exists /\ isConnected
         /\ act' = "save-state.resume")
            => /\ writes[1].hasTurn
                    => (Retry.hasTurn /\ Retry.turn = writes[1].turn)
               /\ (writes[1].hasCombatants
                      /\ Unpropagated(writes[1], remote) # {})
                    => /\ Retry.hasCombatants
                       /\ Unpropagated(writes[1], remote)
                              \subseteq Range(Retry.combatants) ]_vars

\* a combatant without its bridge identity (the one field the bridge itself
\* writes to the combatants of other clients)
Unlinked(c) == [c EXCEPT !.obsidianId = NoId]

\* TRUE when the payload w changes the baseline's combatant of c's id
Propagates(w, baseline, c) ==
    \E p \in Range(w.combatants), b \in Range(baseline.combatants) :
        p.id = c.id /\ b.id = c.id /\ p # b

\* C20: a write of the sync cycle that reaches the record, issued by a bridge
\* that holds a remote baseline, keeps every combatant another client created
\* as the record holds it when the bridge has not received that state of it
\* (the combatant was added, or a field of it was changed, since the remote
\* baseline) and the cycle is not propagating a change of that combatant.
C20_NoClobber ==
    [][ (/\ act' = "save-state.cycle" /\ lastFirestoreState.present
         /\ Len(writes') = 1 /\ writes'[1].ok /\ remote.exists)
            => \A c \in Range(remote.combatants) :
                  (/\ c.id[1] = "web"
                   /\ \A b \in Range(lastFirestoreState.combatants) :
                         Unlinked(b) # Unlinked(c)
                   /\ ~Propagates(writes'[1], lastFirestoreState, c))
                     => \E d \in Range(remote'.combatants) :
                           Unlinked(d) = Unlinked(c) ]_vars

\* C21: a write of the sync cycle carries, for every combatant of type
\* Player Character or Summon that the remote baseline holds, the hp, ac,
\* initiative and isDead of the baseline.
C21_OneDirectionalStats ==
    [][ (act' = "save-state.cycle" /\ Len(writes') = 1 /\ writes'[1].hasCombatants)
            => \A p \in Range(writes'[1].combatants),
                  b \in Range(lastFirestoreState.combatants) :
                  (p.id = b.id /\ b.type \in {"Player Character", "Summon"})
                     => /\ p.hp = b.hp /\ p.ac = b.ac
                        /\ p.initiative = b.initiative
                        /\ p.isDead = b.isDead ]_vars

\* steps of the orchestrator (everything but the environment and the modal)
OrchestratorActs == {"snapshot.processed", "snapshot.suppressed",
                     "snapshot.deleted", "save-state.cycle",
                     "save-state.skipped", "save-state.suppressed",
                     "save-state.resume"}

\* C23: every remote write issued by the orchestrator sets the remote
\* suppression deadline to now + 2000 ms, and every step of the orchestrator
\* that mutates the local session sets the local suppression deadline to
\* now + 2000 ms.
C23_SuppressionDiscipline ==
    [][ act' \in OrchestratorActs
           => /\ Len(writes') > 0
                   => suppressFirestoreUntil' = now + ECHO_SUPPRESSION_MS
              /\ it' # it
                   => suppressITUntil' = now + ECHO_SUPPRESSION_MS ]_vars

\* ------------------------------------------------ remote turn advances
\* A connected bridge at rest: NumCombatants monsters linked to their
\* combatants, each hidden or not on both sides alike, the one whose turn it
\* is revealed; baselines equal to the record and the session. Another client
\* then sets the turn index.
RevealCreature(i, hidden, active) ==
    Monster(i, <<"Foe">>, i, 18 - 4 * (i - 1), hidden, active)

InitReveal ==
    /\ \E h \in [1..NumCombatants -> BOOLEAN], t \in 0..MaxTurnIndex :
        LET combatants == [i \in 1..NumCombatants |->
                [WebCombatant(i, <<"Foe", i>>, "Monster", 18 - 4 * (i - 1), 5, h[i])
                    EXCEPT !.obsidianId = i]]
        IN /\ ~h[(t % NumCombatants) + 1]
           /\ it = {RevealCreature(i, h[i], i = (t % NumCombatants) + 1)
                      : i \in 1..NumCombatants}
           /\ remote = [exists |-> TRUE, combatants |-> combatants, round |-> 1,
                        turn |-> t]
           /\ lastFirestoreState =
                 [present |-> TRUE, combatants |-> combatants, round |-> 1,
                  turn |-> t]
    /\ lastITCreatureMap = snapshotITState(it)
    /\ now = 0
    /\ itAvailable = TRUE
    /\ nextId = NumCombatants + 1
    /\ itPending = FALSE
    /\ fsPending = FALSE
    /\ isConnected = TRUE
    /\ trackerId = 1
    /\ firestoreUnsubscribe = TRUE
    /\ characterUnsubscribes = {}
    /\ itEventRefs = TRUE
    /\ listeners = [feed |-> 1, it |-> 1]
    /\ monitoredPcIds = {}
    /\ suppressFirestoreUntil = 0
    /\ suppressITUntil = 0
    /\ inflight = 0
    /\ plan \in {<<Edit("OtherSetTurn", t, 0, <<>>)>> : t \in 0..MaxTurnIndex}
    /\ calls = 1
    /\ act = "init"
    /\ writes = <<>>
    /\ inserted = {}
    /\ itRound = 1
    /\ charDoc = NoChar
    /\ pcCharacterData = NoChar
    /\ charPending = FALSE
    /\ pushes = <<>>

NextReveal ==
    \/ OtherSetTurn
    \/ FirestoreSnapshot
    \/ ITSaveState
    \/ ITStateChangeResume
    \/ Tick

SpecReveal == InitReveal /\ [][NextReveal]_vars

\* every delivery and notification has been handled and no write is awaited
AtRest == ~fsPending /\ ~itPending /\ inflight = 0

\* C24: once the notifications that follow another client's change of the
\* turn index have been handled, the non-player combatant the remote turn
\* resolves to is un-hidden in the local session and has isHiddenFromPlayers
\* = false in the remote record.
C24_RemoteTurnAutoReveal ==
    (AtRest /\ activeIndex(remote.turn, remote.combatants) >= 0)
        => LET target == sortedTurnOrder(remote.combatants)
                            [activeIndex(remote.turn, remote.combatants) + 1]
           IN /\ ~target.isHiddenFromPlayers
              /\ \A x \in it : (x.id = target.obsidianId /\ ~x.player) => ~x.hidden

\* the combatant of list that creature c is matched to, as a set of indices
MatchedTo(list, c) ==
    {i \in 1..Len(list) : \/ list[i].obsidianId = c.id
                          \/ list[i].name = getCreatureDisplayName(c)}

\* creature c went from not active (or absent) to active since the last cycle
NewlyActive(c) ==
    /\ c.active
    /\ c.id \in DOMAIN lastITCreatureMap => ~lastITCreatureMap[c.id].active

\* C25: when a save-state cycle finds a creature newly active, its write sets
\* turn to an index that, resolved by the turn order against the combatant
\* list of that write (the record's list when the write carries none),
\* identifies the combatant matched to that creature.
C25_LocalTurnIndex ==
    [][ (act' = "save-state.cycle" /\ lastFirestoreState.present /\ remote.exists)
            => \A c \in it :
                 LET list == IF Len(writes') = 1 /\ writes'[1].hasCombatants
                             THEN writes'[1].combatants
                             ELSE lastFirestoreState.combatants
                     sorted == sortedTurnOrder(list)
                 IN (/\ NewlyActive(c)
                     /\ \E i \in MatchedTo(list, c) : ~list[i].isDead)
                       => /\ Len(writes') = 1
                          /\ writes'[1].hasTurn
                          /\ LET t == sorted[(writes'[1].turn % Len(sorted)) + 1]
                             IN t.obsidianId = c.id
                                  \/ t.name = getCreatureDisplayName(c) ]_vars

\* C28: after every processed delivery that leaves the bridge connected, the
\* local session being reachable, the active character subscriptions are
\* exactly the owning-character ids of the Player Character and player-summon
\* combatants of that delivery.
C28_SubscriptionSet ==
    [][ (act' = "snapshot.processed" /\ isConnected' /\ itAvailable)
            => characterUnsubscribes' = PcIdsOf(remote.combatants) ]_vars

\* C27: when a processed delivery inserts creatures for combatants without a
\* bridge identity and every write-back succeeds, each of those combatants
\* carries the id of the creature inserted for it in the record afterwards.
C27_WriteBackReachesAll ==
    [][ (act' = "snapshot.processed" /\ \A k \in 1..Len(writes') : writes'[k].ok)
            => \A p \in inserted' \ inserted :
                  \A i \in 1..Len(remote.combatants) :
                     (remote.combatants[i].id = p[1]
                        /\ remote.combatants[i].obsidianId = NoId)
                       => \E j \in 1..Len(remote'.combatants) :
                             /\ remote'.combatants[j].id = p[1]
                             /\ remote'.combatants[j].obsidianId = p[2] ]_vars

\* C26: when a save-state cycle finds a creature newly active whose combatant
\* is in the baseline, the local round being above the round of the remote
\* baseline, and its write succeeds, the round of the record is not below the
\* local round afterwards.
C26_RoundPropagation ==
    [][ (/\ act' = "save-state.cycle"
         /\ lastFirestoreState.present /\ remote.exists
         /\ itRound > lastFirestoreState.round
         /\ \E c \in it : /\ NewlyActive(c)
                          /\ MatchedTo(lastFirestoreState.combatants, c) # {}
         /\ Len(writes') = 1 /\ writes'[1].ok)
            => remote'.round >= itRound ]_vars

\* ----------------------------------------------------- character documents
\* A connected bridge at rest whose record holds the character Hero and its
\* summon Wolf, both owned by character 1 and linked to their creatures; the
\* listener of character 1 is registered and its first snapshot is due. The
\* document is then edited up to MaxCharEdits times.
MaxCharEdits == 2

BaseStats ==
    { [currentHP |-> 5, hp |-> Null, maxHP |-> 5, maxHp |-> Null,
       armorClass |-> 12, ac |-> Null],
      [currentHP |-> 3, hp |-> Null, maxHP |-> 5, maxHp |-> Null,
       armorClass |-> 14, ac |-> Null],
      [currentHP |-> Null, hp |-> 3, maxHP |-> Null, maxHp |-> 6,
       armorClass |-> Null, ac |-> 12] }

Wildshapes ==
    { NoWildshape,
      [present |-> TRUE, currentHP |-> 4, maxHPOverride |-> Null],
      [present |-> TRUE, currentHP |-> 4, maxHPOverride |-> 6] }

Summons ==
    { NoSummon,
      [present |-> TRUE, instanceId |-> 1, currentHP |-> 2, maxHP |-> 4],
      [present |-> TRUE, instanceId |-> 1, currentHP |-> 1, maxHP |-> 4],
      [present |-> TRUE, instanceId |-> 2, currentHP |-> 2, maxHP |-> 4] }

CharDocs ==
    { [exists |-> TRUE, rev |-> 0, currentHP |-> b.currentHP, hp |-> b.hp,
       maxHP |-> b.maxHP, maxHp |-> b.maxHp, armorClass |-> b.armorClass,
       ac |-> b.ac, activeWildshapeData |-> w, activeSummon |-> s]
        : b \in BaseStats, w \in Wildshapes, s \in Summons }

MirrorCombatants ==
    << [WebCombatant(1, <<"Hero">>, "Player Character", 18, 5, FALSE)
            EXCEPT !.obsidianId = 1],
       [WebCombatant(2, <<"Wolf">>, "Summon", 10, 5, FALSE)
            EXCEPT !.obsidianId = 2, !.pcId = 1, !.isPlayerSummon = TRUE,
                   !.summonInstanceId = 1] >>

InitMirror ==
    /\ it = { Player(1, <<"Hero">>, 18, TRUE),
              [Monster(2, <<"Wolf">>, 0, 10, FALSE, FALSE) EXCEPT !.friendly = TRUE] }
    /\ remote = [exists |-> TRUE, combatants |-> MirrorCombatants, round |-> 1,
                 turn |-> 0]
    /\ lastFirestoreState = [present |-> TRUE, combatants |-> MirrorCombatants,
                             round |-> 1, turn |-> 0]
    /\ lastITCreatureMap = snapshotITState(it)
    /\ now = 0
    /\ itAvailable = TRUE
    /\ nextId = 3
    /\ itPending = FALSE
    /\ fsPending = FALSE
    /\ isConnected = TRUE
    /\ trackerId = 1
    /\ firestoreUnsubscribe = TRUE
    /\ characterUnsubscribes = {1}
    /\ itEventRefs = TRUE
    /\ listeners = [feed |-> 1, it |-> 1]
    /\ monitoredPcIds = {1}
    /\ suppressFirestoreUntil = 0
    /\ suppressITUntil = 0
    /\ inflight = 0
    /\ plan = <<>>
    /\ calls = 1
    /\ act = "init"
    /\ writes = <<>>
    /\ inserted = {}
    /\ itRound = 1
    /\ charDoc \in CharDocs
    /\ pcCharacterData = NoChar
    /\ charPending = TRUE
    /\ pushes = <<>>

\* the base stats of a document
BaseOf(d) ==
    [currentHP |-> d.currentHP, hp |-> d.hp, maxHP |-> d.maxHP, maxHp |-> d.maxHp,
     armorClass |-> d.armorClass, ac |-> d.ac]

\* the owner of the document (another application) changes its base stats,
\* its wildshape or its summon
CharacterEdit ==
    /\ charDoc.exists
    /\ charDoc.rev < MaxCharEdits
    /\ \E d \in CharDocs :
          /\ [d EXCEPT !.rev = charDoc.rev] # charDoc
          /\ \/ /\ d.activeWildshapeData = charDoc.activeWildshapeData
                /\ d.activeSummon = charDoc.activeSummon
             \/ /\ BaseOf(d) = BaseOf(charDoc)
                /\ d.activeSummon = charDoc.activeSummon
             \/ /\ BaseOf(d) = BaseOf(charDoc)
                /\ d.activeWildshapeData = charDoc.activeWildshapeData
          /\ charDoc' = [d EXCEPT !.rev = charDoc.rev + 1]
    /\ charPending' = (charPending \/ 1 \in characterUnsubscribes)
    /\ act' = "character.edit"
    /\ writes' = <<>>
    /\ UNCHANGED <<now, itAvailable, it, nextId, itPending, remote, fsPending,
                   bridgeVars, inflight, plan, calls, inserted, itRound,
                   pcCharacterData, pushes>>

\* a callback that opens the local suppression window and re-snapshots
CharacterSnapshotWithWindow ==
    /\ charPending
    /\ 1 \in characterUnsubscribes
    /\ charPending' = FALSE
    /\ pcCharacterData' = charDoc
    /\ pushes' = handleCharacterDataChange(lastFirestoreState, 1, charDoc,
                                           pcCharacterData)
    /\ it' = ApplyPushes(it, pushes')
    /\ itPending' = (itPending \/ it' # it)
    /\ suppressITUntil' = now + ECHO_SUPPRESSION_MS
    /\ act' = "character"
    /\ writes' = <<>>
    /\ UNCHANGED <<now, itAvailable, nextId, remote, fsPending, isConnected,
                   trackerId, firestoreUnsubscribe, characterUnsubscribes,
                   itEventRefs, listeners, monitoredPcIds, suppressFirestoreUntil,
                   lastFirestoreState, lastITCreatureMap,
                   inflight, plan, calls, inserted, itRound, charDoc>>

\* the callback of the character listener (setupCharacterListeners)
CharacterSnapshot ==
    /\ charPending
    /\ 1 \in characterUnsubscribes
    /\ charPending' = FALSE
    /\ IF charDoc.exists
       THEN /\ pcCharacterData' = charDoc
            /\ pushes' = IF isConnected
                         THEN handleCharacterDataChange(lastFirestoreState, 1,
                                                        charDoc, pcCharacterData)
                         ELSE <<>>
       ELSE /\ pushes' = <<>>
            /\ UNCHANGED pcCharacterData
    /\ it' = IF itAvailable THEN ApplyPushes(it, pushes') ELSE it
    /\ itPending' = (itPending \/ it' # it)
    /\ act' = "character"
    /\ writes' = <<>>
    /\ UNCHANGED <<now, itAvailable, nextId, remote, fsPending, bridgeVars,
                   inflight, plan, calls, inserted, itRound, charDoc>>

NextMirror ==
    \/ CharacterEdit
    \/ CharacterSnapshot
    \/ FirestoreSnapshot
    \/ ITSaveState
    \/ ITStateChangeResume

SpecMirror == InitMirror /\ [][NextMirror]_vars

PushesFor(ps, name) == SelectSeq(ps, LAMBDA p : p.name = name)

\* C29: every stat pushed for a summon combatant is the active summon's, whose
\* instance id is the combatant's (a summon without a matching active summon
\* gets no push); every hp pushed for a character combatant is the wildshape's
\* when a wildshape is active and the base hp otherwise, and likewise max hp.
C29_EffectiveStats ==
    [][ act' = "character"
            => \A i \in 1..Len(lastFirestoreState.combatants) :
                 LET c == lastFirestoreState.combatants[i]
                     wild == charDoc.activeWildshapeData
                     summon == charDoc.activeSummon
                 IN \A p \in Range(PushesFor(pushes', c.name)) :
                      IF c.type = "Summon"
                      THEN /\ summon.present
                           /\ summon.instanceId = c.summonInstanceId
                           /\ p.hp \in {Null, summon.currentHP}
                           /\ p.maxHp \in {Null, summon.maxHP}
                      ELSE IF wild.present
                      THEN /\ p.hp \in {Null, wild.currentHP}
                           /\ p.maxHp \in {Null, IF wild.maxHPOverride \in {Null, 0}
                                                 THEN wild.currentHP
                                                 ELSE wild.maxHPOverride}
                      ELSE /\ p.hp \in {Null, IF charDoc.currentHP # Null
                                              THEN charDoc.currentHP ELSE charDoc.hp}
                           /\ p.maxHp \in {Null, IF charDoc.maxHP # Null
                                                 THEN charDoc.maxHP ELSE charDoc.maxHp} ]_vars

\* an event with a wildshape and a matching summon pushed stats for both
C29_Witness ==
    /\ act = "character"
    /\ pcCharacterData.activeWildshapeData.present
    /\ pcCharacterData.activeSummon.present
    /\ PushesFor(pushes, <<"Hero">>) # <<>>
    /\ PushesFor(pushes, <<"Wolf">>) # <<>>

\* the last clause of C29 as first stated, read over the whole stat set: no
\* armor class of the base
\* character is pushed for a character combatant while a wildshape is active.
C29_NoBaseStatUnderOverride ==
    [][ act' = "character"
            => \A p \in Range(PushesFor(pushes', <<"Hero">>)) :
                 charDoc.activeWildshapeData.present => p.ac = Null ]_vars

\* the stats the mirror owes a combatant under a character document: none
\* when there is no document or the combatant is skipped
OwedStats(combatant, data) ==
    IF data.exists /\ ~EffectiveStats(combatant, data).skip
    THEN EffectiveStats(combatant, data)
    ELSE [skip |-> TRUE, hp |-> Null, maxHp |-> Null, ac |-> Null]

\* the push mode of one combatant in one character event
PushModeOf(c, cur, prev, mine) ==
    LET eff == OwedStats(c, cur)
        old == OwedStats(c, prev)
        toggled == prev.exists /\ (prev.activeWildshapeData.present
                                     # cur.activeWildshapeData.present)
    IN  IF eff.skip THEN mine = <<>>
        ELSE IF ~prev.exists \/ toggled
        THEN mine = <<Push("setCreatureFullStats", c.name, eff.hp, eff.maxHp, eff.ac)>>
        ELSE /\ \A p \in Range(mine) : p.op # "setCreatureFullStats"
             /\ (eff.hp # old.hp)
                  <=> \E p \in Range(mine) : p.op = "setCreatureHP" /\ p.hp = eff.hp
             /\ (eff.maxHp # old.maxHp)
                  <=> \E p \in Range(mine) : p.op = "setCreatureMaxHP" /\ p.maxHp = eff.maxHp
             /\ (eff.ac # Null /\ eff.ac # old.ac)
                  <=> \E p \in Range(mine) : p.op = "setCreatureAC" /\ p.ac = eff.ac
             /\ Len(mine) = Cardinality({p.op : p \in Range(mine)})

\* C30: in a character event every combatant of the character gets the full
\* stat set when the event is the first one observed for the character or the
\* wildshape state toggles, and otherwise one setter call for each field whose
\* effective value differs from the one of the previous event, and no other.
C30_PushMode ==
    [][ (act' = "character" /\ isConnected /\ charDoc.exists)
            => \A i \in 1..Len(lastFirestoreState.combatants) :
                 LET c == lastFirestoreState.combatants[i]
                 IN  c.pcId = 1
                       => PushModeOf(c, charDoc, pcCharacterData,
                                     PushesFor(pushes', c.name)) ]_vars

\* the same for the character combatant alone
C30_PushModeOfCharacter ==
    [][ (act' = "character" /\ isConnected /\ charDoc.exists)
            => \A i \in 1..Len(lastFirestoreState.combatants) :
                 LET c == lastFirestoreState.combatants[i]
                 IN  (c.pcId = 1 /\ c.type # "Summon")
                       => PushModeOf(c, charDoc, pcCharacterData,
                                     PushesFor(pushes', c.name)) ]_vars

\* a cycle runs on a creature that is not player-controlled, whose hp changed
\* to zero or less and that matches combatant k of the remote baseline
DiesLocally(c, k) ==
    /\ ~c.player
    /\ c.id \in DOMAIN lastITCreatureMap
    /\ c.hp # lastITCreatureMap[c.id].hp
    /\ c.hp <= 0
    /\ lastFirestoreState # NoData
    /\ k = FirestoreIndex(lastFirestoreState.combatants, c.id,
                          getCreatureDisplayName(c))
    /\ k # 0

\* the write of the cycle marks the combatant dead and stamps the round of the
\* remote baseline unless a death round is there
DeathStamped ==
    \A c \in it : \A k \in 1..Len(lastFirestoreState.combatants) :
        DiesLocally(c, k)
          => /\ writes' # <<>>
             /\ writes'[1].hasCombatants
             /\ writes'[1].combatants[k].isDead
             /\ writes'[1].combatants[k].deathRound
                  = IF lastFirestoreState.combatants[k].deathRound # 0
                    THEN lastFirestoreState.combatants[k].deathRound
                    ELSE lastFirestoreState.round

\* a write leaves every death round of the record as it is
DeathRoundKept ==
    writes' # <<>>
      => \A j \in 1..Len(remote.combatants) : \A m \in 1..Len(remote'.combatants) :
            (/\ remote.combatants[j].deathRound # 0
             /\ remote'.combatants[m].id = remote.combatants[j].id)
              => remote'.combatants[m].deathRound = remote.combatants[j].deathRound

\* the hp change of a player-controlled creature leaves isDead and deathRound
\* of its combatant as they are in the remote baseline
PlayerHpKept ==
    \A c \in it :
        (/\ c.player
         /\ c.id \in DOMAIN lastITCreatureMap
         /\ c.hp # lastITCreatureMap[c.id].hp
         /\ lastFirestoreState # NoData
         /\ writes' # <<>> /\ writes'[1].hasCombatants)
          => LET k == FirestoreIndex(lastFirestoreState.combatants, c.id,
                                     getCreatureDisplayName(c))
             IN k # 0 =>
                  /\ writes'[1].combatants[k].isDead
                       = lastFirestoreState.combatants[k].isDead
                  /\ writes'[1].combatants[k].deathRound
                       = lastFirestoreState.combatants[k].deathRound

\* C31: a cycle that sees the hp of a matched creature that is not
\* player-controlled reach zero writes the combatant dead, with the round of
\* the remote baseline as death round only if it had none; no write of the
\* bridge changes a death round that is set in the record; the hp change of a
\* player-controlled creature sets neither isDead nor deathRound.
C31_DeathRound ==
    [][ /\ act' = "save-state.cycle" => (DeathStamped /\ PlayerHpKept)
        /\ act' \in {"save-state.cycle", "snapshot.processed",
                     "mergeWithExistingTracker"} => DeathRoundKept ]_vars

\* the first and the third part of C31
C31_DeathStampedPlayerKept ==
    [][ act' = "save-state.cycle" => (DeathStamped /\ PlayerHpKept) ]_vars

\* ids of the local creatures a remote combatant resolves to: the creature
\* with its bridge identity, else the creatures with its display name
Resolved(session, c) ==
    IF c.obsidianId # NoId /\ c.obsidianId \in Ids(session)
    THEN {c.obsidianId}
    ELSE {x.id : x \in {y \in session : getCreatureDisplayName(y) = c.name}}

\* the combatants of the delivered record that go from not dead to dead
Dying(data, prevData) ==
    IF prevData = NoData THEN {}
    ELSE {i \in 1..Len(data.combatants) :
            /\ KeyIndex(prevData.combatants, data.combatants[i]) # 0
            /\ ~prevData.combatants[KeyIndex(prevData.combatants,
                                             data.combatants[i])].isDead
            /\ data.combatants[i].isDead}

\* C32: a processed delivery in which a matched combatant goes from not dead
\* to dead sets the local suppression deadline and leaves the local creature
\* the combatant resolves to with hp 0 and the Unconscious status; a creature
\* no dying combatant resolves to keeps its hp and status; the delivered
\* record becomes the baseline, so the transition is seen once.
C32_RemoteDeath ==
    [][ (act' = "snapshot.processed" /\ itAvailable
            /\ Dying(SnapshotData, lastFirestoreState) # {})
          => LET targets == UNION {Resolved(it', SnapshotData.combatants[i])
                                     : i \in Dying(SnapshotData, lastFirestoreState)}
             IN /\ suppressITUntil' = now + ECHO_SUPPRESSION_MS
                /\ \A x \in it' : x.id \in targets => (x.hp = 0 /\ x.unconscious)
                /\ \A x \in it' : (x.id \notin targets /\ x.id \in Ids(it))
                      => /\ x.hp = Creature(it, x.id).hp
                         /\ x.unconscious = Creature(it, x.id).unconscious
                /\ Dying(SnapshotData, lastFirestoreState') = {} ]_vars

\* the combatants of the remote baseline that the delivered record lacks
Gone(data, prevData) ==
    IF prevData = NoData THEN {}
    ELSE {j \in 1..Len(prevData.combatants) :
            KeyIndex(data.combatants, prevData.combatants[j]) = 0}

\* C33: a processed delivery that lacks a combatant of the remote baseline
\* removes the local creature that combatant resolves to, and removes no
\* creature that no such combatant resolves to.
C33_RemoteRemoval ==
    [][ (act' = "snapshot.processed" /\ itAvailable)
          => LET gone == Gone(SnapshotData, lastFirestoreState)
                 targets == UNION {Resolved(it, lastFirestoreState.combatants[j])
                                     : j \in gone}
             IN /\ targets \cap Ids(it') = {}
                /\ (Ids(it) \ Ids(it')) \subseteq targets ]_vars

\* the first part alone: the resolved creature is removed
C33_ResolvedRemoved ==
    [][ (act' = "snapshot.processed" /\ itAvailable)
          => (UNION {Resolved(it, lastFirestoreState.combatants[j])
                       : j \in Gone(SnapshotData, lastFirestoreState)})
                \cap Ids(it') = {} ]_vars

\* creature c is tracked and differs from its last known state
ChangedLocally(c) ==
    /\ c.id \in DOMAIN lastITCreatureMap
    /\ \/ FieldsChanged(c, lastITCreatureMap[c.id])
       \/ (c.active /\ ~lastITCreatureMap[c.id].active)

\* index of the combatant of the remote baseline that creature c matches
MatchOf(c) ==
    FirestoreIndex(IF lastFirestoreState = NoData THEN <<>>
                   ELSE lastFirestoreState.combatants,
                   c.id, getCreatureDisplayName(c))

\* the changed creatures without a match
Unmatched == {c \in it : ChangedLocally(c) /\ MatchOf(c) = 0}

\* the hp, hidden and initiative changes of creature c are in combatant w
WrittenTo(c, w) ==
    /\ (~c.player /\ c.hp # lastITCreatureMap[c.id].hp) => w.hp = c.hp
    /\ (c.initiative # lastITCreatureMap[c.id].initiative)
          => w.initiative = c.initiative
    /\ (c.hidden # lastITCreatureMap[c.id].hidden /\ ~c.active)
          => w.isHiddenFromPlayers = c.hidden

\* C34: in a cycle, the changed creatures without a matching combatant leave
\* the write as it is without them, and the hp, hidden and initiative change
\* of every creature with a matching combatant is in the write.
C34_SkipUnmatched ==
    [][ act' = "save-state.cycle"
          => /\ IF writes' = <<>>
                THEN handleITStateChange(it \ Unmatched, lastITCreatureMap,
                                         lastFirestoreState, now, TRUE).write = NoWrite
                ELSE handleITStateChange(it \ Unmatched, lastITCreatureMap,
                                         lastFirestoreState, now,
                                         writes'[1].ok).write = writes'[1]
             /\ \A c \in it :
                  (/\ c.id \in DOMAIN lastITCreatureMap
                   /\ FieldsChanged(c, lastITCreatureMap[c.id])
                   /\ MatchOf(c) # 0)
                    => /\ writes' # <<>>
                       /\ writes'[1].hasCombatants
                       /\ WrittenTo(c, writes'[1].combatants[MatchOf(c)]) ]_vars

\* a cycle has just written the change of a matched creature while another
\* changed creature had no match
C34_Witness ==
    /\ act = "save-state.cycle"
    /\ writes # <<>>
    /\ writes[1].hasCombatants
    /\ Unmatched # {}
    /\ \E c \in it : /\ c.id \in DOMAIN lastITCreatureMap
                     /\ FieldsChanged(c, lastITCreatureMap[c.id])
                     /\ MatchOf(c) # 0

\* --------------------------------------------------------- late deliveries
\* A connected bridge at rest on a record created from its session; one edit
\* is made by the user or by another client; every delivery may be held back
\* until the suppression window that covers it has expired.
EchoPlans ==
    { <<Edit("UserSetHP", 1, 0, <<>>)>>,
      <<Edit("UserSetInitiative", 1, 12, <<>>)>>,
      <<Edit("UserSetHidden", 1, 0, <<>>)>>,
      <<Edit("UserSetActive", 1, 0, <<>>)>>,
      <<Edit("UserRemove", 1, 0, <<>>)>>,
      <<Edit("UserAdd", 0, 0, <<"Goblin">>)>>,
      <<Edit("UserAdd", 0, 0, <<"Orc">>)>>,
      <<Edit("OtherSetInitiative", 2, 14, <<>>)>>,
      <<Edit("OtherKill", 2, 0, <<>>)>>,
      <<Edit("OtherSetHidden", 1, 0, <<>>)>>,
      <<Edit("OtherSetTurn", 1, 0, <<>>)>>,
      <<Edit("OtherRemove", 2, 0, <<>>)>>,
      <<Edit("OtherAdd", 18, 0, <<"Goblin">>)>>,
      <<Edit("OtherAdd", 10, 0, <<"Orc">>)>>,
      <<Edit("OtherAdd", 10, 0, <<"Goblin">>)>>,
      <<Edit("OtherAdd", 10, 0, <<"Wolf">>)>> }

\* a connected bridge at rest on a record created from its session, with one
\* of the plans ahead
ConnectedAtRest(plans) ==
    /\ it \in InitSessions
    /\ remote = createNewTracker(it, 0)
    /\ lastFirestoreState = [present |-> TRUE, combatants |-> remote.combatants,
                             round |-> remote.round, turn |-> remote.turn]
    /\ lastITCreatureMap = snapshotITState(it)
    /\ now = 0
    /\ itAvailable = TRUE
    /\ nextId = 3
    /\ itPending = FALSE
    /\ fsPending = FALSE
    /\ isConnected = TRUE
    /\ trackerId = 1
    /\ firestoreUnsubscribe = TRUE
    /\ characterUnsubscribes = {}
    /\ itEventRefs = TRUE
    /\ listeners = [feed |-> 1, it |-> 1]
    /\ monitoredPcIds = {}
    /\ suppressFirestoreUntil = 0
    /\ suppressITUntil = 0
    /\ inflight = 0
    /\ plan \in plans
    /\ calls = 1
    /\ act = "init"
    /\ writes = <<>>
    /\ inserted = {}
    /\ itRound = 1
    /\ charDoc = NoChar
    /\ pcCharacterData = NoChar
    /\ charPending = FALSE
    /\ pushes = <<>>

InitEcho == ConnectedAtRest(EchoPlans)

\* a deadline as read after ECHO_SUPPRESSION_MS more have passed, the clock
\* being read relative to the moment ECHO_SUPPRESSION_MS before the present
Elapsed(until) ==
    IF now = 0 THEN until
    ELSE IF until >= ECHO_SUPPRESSION_MS THEN until - ECHO_SUPPRESSION_MS
    ELSE 0

\* a delivery that a suppression window covers is held back until both
\* windows have expired; Date.now() and the two deadlines are kept relative
\* to the last expiry, which leaves every comparison of the code unchanged
WindowsExpire ==
    /\ \/ (fsPending /\ now < suppressFirestoreUntil)
       \/ (itPending /\ now < suppressITUntil)
    /\ now' = ECHO_SUPPRESSION_MS
    /\ suppressFirestoreUntil' = Elapsed(suppressFirestoreUntil)
    /\ suppressITUntil' = Elapsed(suppressITUntil)
    /\ act' = "tick" /\ UNCHANGED <<itAvailable, itRound, mirrorVars>>
    /\ writes' = <<>>
    /\ UNCHANGED <<it, nextId, itPending, remote, fsPending, inflight,
                   plan, calls, inserted>>
    /\ UNCHANGED <<isConnected, trackerId, firestoreUnsubscribe,
                   characterUnsubscribes, itEventRefs, listeners, monitoredPcIds,
                   lastFirestoreState, lastITCreatureMap>>

\* a further save-state notification without a change of the session
FurtherNotification ==
    /\ plan = <<>>
    /\ ~itPending
    /\ itPending' = TRUE
    /\ act' = "user" /\ UNCHANGED <<itAvailable, itRound, mirrorVars>>
    /\ writes' = <<>>
    /\ UNCHANGED <<now, it, nextId, remote, fsPending, bridgeVars, inflight,
                   plan, calls, inserted>>

\* a further delivery of the record without a change of its content
FurtherDelivery ==
    /\ plan = <<>>
    /\ ~fsPending
    /\ fsPending' = TRUE
    /\ act' = "other" /\ UNCHANGED <<itAvailable, itRound, mirrorVars>>
    /\ writes' = <<>>
    /\ UNCHANGED <<now, it, nextId, itPending, remote, bridgeVars, inflight,
                   plan, calls, inserted>>

\* the record accepts every write of the step
WritesLand == \A i \in 1..Len(writes') : writes'[i].ok

\* a delivery whose identity write-backs the record accepts
EchoSnapshot == FirestoreSnapshot /\ WritesLand

\* a save-state notification whose write the record accepts
EchoSaveState == ITSaveState /\ WritesLand

NextEcho ==
    \/ UserSetHP
    \/ UserSetInitiative
    \/ UserSetHidden
    \/ UserSetActive
    \/ UserRemove
    \/ UserAdd
    \/ OtherSetInitiative
    \/ OtherKill
    \/ OtherSetHidden
    \/ OtherSetTurn
    \/ OtherRemove
    \/ OtherAdd
    \/ EchoSnapshot
    \/ EchoSaveState
    \/ ITStateChangeResume
    \/ WindowsExpire
    \/ FurtherNotification
    \/ FurtherDelivery

SpecEcho == InitEcho /\ [][NextEcho]_vars

\* C35: after one edit, with deliveries held back past their windows and
\* every write accepted by the record, there is a point from which no step issues a write to the record or changes the
\* session or the record, whatever further notifications and deliveries arrive.
C35_LateEchoConverges ==
    <>[][writes' = <<>> /\ it' = it /\ remote' = remote]_vars

\* the notification of a session change made by the bridge was held back past
\* the local window and the cycle has just issued the echo write
C35_Witness ==
    /\ act = "save-state.cycle"
    /\ writes # <<>>
    /\ suppressITUntil > 0
    /\ now >= suppressITUntil
    /\ now >= ECHO_SUPPRESSION_MS

\* ------------------------------------------- changes of other clients
\* A connected bridge at rest; the user changes a creature's hp and another
\* client then changes the record, possibly while the remote suppression
\* window of the bridge's write is open.
OtherPlans ==
    { <<Edit("UserSetHP", 1, 0, <<>>), Edit("OtherSetInitiative", 2, 14, <<>>)>>,
      <<Edit("UserSetHP", 1, 0, <<>>), Edit("OtherKill", 2, 0, <<>>)>>,
      <<Edit("UserSetHP", 1, 0, <<>>), Edit("OtherRemove", 2, 0, <<>>)>>,
      <<Edit("UserSetHP", 1, 0, <<>>), Edit("OtherAdd", 10, 0, <<"Wolf">>)>>,
      <<Edit("OtherSetInitiative", 2, 14, <<>>)>>,
      <<Edit("OtherKill", 2, 0, <<>>)>>,
      <<Edit("OtherRemove", 2, 0, <<>>)>>,
      <<Edit("OtherAdd", 10, 0, <<"Wolf">>)>> }

InitOther == ConnectedAtRest(OtherPlans)

NextOther ==
    \/ UserSetHP
    \/ OtherSetInitiative
    \/ OtherKill
    \/ OtherRemove
    \/ OtherAdd
    \/ EchoSnapshot
    \/ EchoSaveState
    \/ ITStateChangeResume
    \/ WindowsExpire

SpecOther == InitOther /\ [][NextOther]_vars

\* the session has what the record says: every combatant of the record has
\* its local creature, with the record's initiative and dead when the record
\* says so, and every local creature has its combatant
Propagated ==
    /\ remote.exists
    /\ \A i \in 1..Len(remote.combatants) :
          LET c == remote.combatants[i] IN
          /\ Resolved(it, c) # {}
          /\ \A id \in Resolved(it, c) :
                /\ Creature(it, id).initiative = c.initiative
                /\ c.isDead => Creature(it, id).hp = 0
    /\ \A x \in it : \E i \in 1..Len(remote.combatants) :
          x.id \in Resolved(it, remote.combatants[i])

\* C36: once the edits are made and every delivery, notification and awaited
\* write has been handled, the initiative change, death, addition or removal
\* another client made in the record is in the session.
C36_RemoteChangePropagates == (plan = <<>> /\ AtRest) => Propagated

\* ------------------------------------------------- identity resolution
\* the local creatures that the combatants of the delivered record and of the
\* remote baseline resolve to
ResolvedTargets ==
    UNION ( {Resolved(it, SnapshotData.combatants[i])
               : i \in 1..Len(SnapshotData.combatants)}
            \cup (IF lastFirestoreState = NoData THEN {}
                  ELSE {Resolved(it, lastFirestoreState.combatants[j])
                          : j \in 1..Len(lastFirestoreState.combatants)}) )

\* creature x is removed or changed by the step, its turn marker left aside
Touched(x) ==
    \/ x.id \notin Ids(it')
    \/ [Creature(it', x.id) EXCEPT !.active = FALSE] # [x EXCEPT !.active = FALSE]

\* C37: a processed delivery removes or changes only local creatures that a
\* combatant resolves to, by its bridge identity when a local creature has
\* that id and by equality of the display name with the remote name otherwise.
C37_TwoTierResolution ==
    [][ (act' = "snapshot.processed" /\ itAvailable)
          => \A x \in it : Touched(x) => x.id \in ResolvedTargets ]_vars

\* the first tier alone: a combatant whose bridge identity is the id of a
\* local creature and whose initiative differs from the baseline's leaves
\* that creature with a combatant's initiative, whatever the remote name
C37_IdentityFirst ==
    [][ (act' = "snapshot.processed" /\ itAvailable /\ lastFirestoreState # NoData)
          => \A i \in 1..Len(SnapshotData.combatants) :
                LET c == SnapshotData.combatants[i]
                    k == KeyIndex(lastFirestoreState.combatants, c)
                IN (/\ c.obsidianId # NoId
                    /\ c.obsidianId \in Ids(it)
                    /\ c.obsidianId \in Ids(it')
                    /\ k # 0
                    /\ lastFirestoreState.combatants[k].initiative # c.initiative)
                   => \E j \in 1..Len(SnapshotData.combatants) :
                         /\ SnapshotData.combatants[j].obsidianId = c.obsidianId
                         /\ Creature(it', c.obsidianId).initiative
                               = SnapshotData.combatants[j].initiative ]_vars

\* --------------------------------------------------- local-origin adds
\* the combatants of the record that were translated from local creatures
LocalOrigin(combatants) ==
    {combatants[i].id : i \in {j \in 1..Len(combatants) : combatants[j].id[1] = "obs"}}

\* C38: once the bridge has a remote baseline, a write of the combatant list
\* holds every combatant of the record that was written from a local creature.
C38_AddedStays ==
    [][ \A k \in 1..Len(writes') :
           (lastFirestoreState # NoData /\ writes'[k].hasCombatants)
              => LocalOrigin(remote.combatants)
                    \subseteq LocalOrigin(writes'[k].combatants) ]_vars

\* ------------------------------------------------- overlapping connects
\* connect() suspends at `await this.disconnect()` when the bridge is
\* connected; the continuation runs before any delivery or notification is
\* handled, but after the calls the caller makes in the same turn. In this
\* specification plan holds the suspended connect calls, oldest first.
InitConnect ==
    /\ it \in InitSessions
    /\ remote \in ({createNewTracker(it, 0)} \cup (InitRecords \ {NoDoc}))
    /\ lastFirestoreState = NoData
    /\ lastITCreatureMap = snapshotITState(it)
    /\ now = 0
    /\ itAvailable = TRUE
    /\ nextId = 3
    /\ itPending = FALSE
    /\ fsPending = TRUE
    /\ isConnected = TRUE
    /\ trackerId = 1
    /\ firestoreUnsubscribe = TRUE
    /\ characterUnsubscribes = {}
    /\ itEventRefs = TRUE
    /\ listeners = [feed |-> 1, it |-> 1]
    /\ monitoredPcIds = {}
    /\ suppressFirestoreUntil = 0
    /\ suppressITUntil = 0
    /\ inflight = 0
    /\ plan = <<>>
    /\ calls = 0
    /\ act = "connect"
    /\ writes = <<>>
    /\ inserted = {}
    /\ itRound = 1
    /\ charDoc = NoChar
    /\ pcCharacterData = NoChar
    /\ charPending = FALSE
    /\ pushes = <<>>

\* connect() after its first statement: the ids, the flag, snapshotITState(),
\* startFirestoreListener() and startITListeners()
connectBody ==
    /\ trackerId' = 1
    /\ isConnected' = TRUE
    /\ lastITCreatureMap' = snapshotITState(it)
    /\ firestoreUnsubscribe' = TRUE
    /\ fsPending' = TRUE
    /\ itEventRefs' = TRUE
    /\ listeners' = [feed |-> listeners.feed + 1, it |-> listeners.it + 1]
    /\ writes' = <<>>
    /\ UNCHANGED <<now, itAvailable, it, nextId, remote, itPending, lastFirestoreState,
                   characterUnsubscribes, monitoredPcIds, suppressFirestoreUntil,
                   suppressITUntil, inflight, inserted, itRound, mirrorVars>>

\* connect() on a connected bridge: disconnect() runs and the call suspends
ConnectAwaitsDisconnect ==
    /\ calls < MaxCalls
    /\ isConnected
    /\ calls' = calls + 1
    /\ disconnect
    /\ plan' = Append(plan, Edit("connect", 1, 0, <<>>))
    /\ act' = "connect.await"
    /\ writes' = <<>>
    /\ UNCHANGED <<now, itAvailable, it, nextId, remote, inflight, inserted,
                   itRound, charDoc, pushes>>

\* connect() on a bridge that is not connected: runs to completion
ConnectAtOnce ==
    /\ calls < MaxCalls
    /\ ~isConnected
    /\ calls' = calls + 1
    /\ connectBody
    /\ act' = "connect"
    /\ UNCHANGED plan

\* the oldest suspended connect() resumes
ConnectResume ==
    /\ plan # <<>>
    /\ connectBody
    /\ plan' = Tail(plan)
    /\ act' = "connect.resume"
    /\ UNCHANGED calls

\* deliveries and notifications wait for the suspended calls
FeedAfterConnects == plan = <<>> /\ FirestoreSnapshot

SaveStateAfterConnects == plan = <<>> /\ ITSaveState

NextConnect ==
    \/ ConnectAwaitsDisconnect
    \/ ConnectAtOnce
    \/ ConnectResume
    \/ Disconnect
    \/ FeedAfterConnects
    \/ SaveStateAfterConnects
    \/ FurtherNotification

SpecConnect == InitConnect /\ [][NextConnect]_vars

\* C39: with connect calls overlapping, there is at most one live feed
\* subscription and one set of workspace listeners, and after a disconnect()
\* with no connect call suspended none is left.
C39_OneConnection ==
    /\ listeners.feed <= 1
    /\ listeners.it <= 1
    /\ (act = "disconnect" /\ plan = <<>>) => listeners = [feed |-> 0, it |-> 0]

\* ------------------------------------------------- unique identities
\* no two combatants of the list carry the same bridge identity
IdentitiesDistinct(combatants) ==
    \A i, j \in 1..Len(combatants) :
        (i # j /\ combatants[i].obsidianId # NoId)
            => combatants[i].obsidianId # combatants[j].obsidianId

\* C40: createNewTracker, mergeWithExistingTracker, a save-state cycle and a
\* processed delivery with its identity write-backs leave the bridge
\* identities of the record pairwise distinct when they were so before.
C40_IdentitiesUnique ==
    [][ (/\ act' \in {"createNewTracker", "mergeWithExistingTracker",
                      "save-state.cycle", "snapshot.processed"}
         /\ remote.exists => IdentitiesDistinct(remote.combatants))
           => (remote'.exists => IdentitiesDistinct(remote'.combatants)) ]_vars

=========================================================================
